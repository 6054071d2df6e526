----------------------- MODULE MCStreamingCoordinator -----------------------
(***************************************************************************)
(* Model-checking instance of StreamingCoordinator: five windows of four   *)
(* ticks, two of them revisable.  Words and events end inside a window, on *)
(* a stability boundary and across a window seam; one interior gap reaches *)
(* the silence threshold and one is a tick short of it.  Two words overlap *)
(* where nothing is frozen between their ends, and two across the boundary *)
(* of the fourth window.                                                   *)
(***************************************************************************)
EXTENDS StreamingCoordinator

Span(s, e) == [start |-> s, end |-> e]

MCWords == {Span(0, 1), Span(1, 4), Span(2, 3), Span(7, 8), Span(11, 13),
            Span(12, 15), Span(17, 20)}

MCEvents == {Span(0, 2), Span(1, 6), Span(6, 8), Span(11, 15)}

(* No two events of one class start in one bucket of derive_event_id.      *)
MCIdOf == [e \in MCEvents |-> e.start]

MCIds == 0 .. 11

=============================================================================
