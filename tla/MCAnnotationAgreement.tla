----------------------- MODULE MCAnnotationAgreement -----------------------
(***************************************************************************)
(* AnnotationAgreement for TLC: two annotators of one recording.           *)
(***************************************************************************)
EXTENDS AnnotationAgreement

CONSTANTS ana, beto

Mark(class, start, end, role, text) ==
    [class |-> class, start |-> start, end |-> end, role |-> role, text |-> text]

Pause(start, end) == Mark("filled_pause", start, end, Absent, {})

\* One pause spans two short ones that do not touch; two pauses are disjoint with
\* near midpoints; one mark has neither role nor end.
MCRawMarks ==
    {Pause(0, 4), Pause(0, 1), Pause(1, 2), Pause(2, 4),
     Mark("lexical_filler", 0, 2, "filler", {"este"}),
     Mark("lexical_filler", 2, 4, "uncertain", {"este"}),
     Mark("false_start", 1, NoTime, Absent, {"los"})}

Spoken(text, start, end) == [text |-> text, start |-> start, end |-> end]

MCWordTiers ==
    {{Spoken("este", 0, 2), Spoken("pues,", 1, 4)}, {Spoken("", 0, 0)}}

Header(annotator, recording, speaker, pass, taxonomy) ==
    [annotator |-> annotator, recording |-> recording, speaker |-> speaker, pass |-> pass,
     taxonomy |-> taxonomy]

\* Files without a recording, without names and with an identifier for a pseudonym; a
\* file of the same annotator, and an adjudicated one.
MCHeaders ==
    ana :> {Header("ana", "r1", "s01", "first", 1)}
    @@ beto :> {Header("beto", "r1", "s01", "adjudicated", 2), Header("ana", "r1", "s01", "second", 1),
                Header("beto", Absent, "s01", Absent, 1), Header(Absent, "r1", Absent, "first", 1),
                Header("beto", "r1", "u20201234", "second", 1)}

MCMaxMarks == ana :> 3 @@ beto :> 2

=============================================================================
