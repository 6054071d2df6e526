--------------------------- MODULE MCEvidenceRun ---------------------------
(***************************************************************************)
(* EvidenceRun for TLC.  Two builds whose defaults share an id, and a      *)
(* tuned snapshot; ten ticks, two to a bucket of identifiers.              *)
(***************************************************************************)
EXTENDS EvidenceRun

Snapshot(id, taxonomy, gate, width) ==
    [id |-> id, taxonomy |-> taxonomy, gate |-> gate, width |-> width]

MCDefaultOf ==
    "v1" :> Snapshot("default", 1, OptionalMinimum, 1)
    @@ "v2" :> Snapshot("default", 2, OptionalMinimum, 2)

MCSymmetry == Permutations(Requests)

\* Bound: the stream opens once the creations have ended.  It reads the
\* configuration as it opens, and what is administered later cannot reach it.
MCAdministeredFirst ==
    /\ phase # "none" => configurationVars' = configurationVars
    /\ phase' # "none" => \A s \in Requests : creation[s].step \in {"answered", "failed"}

MCPublishable == {Snapshot("tuned", 1, 60, 0)}

\* Flat, then rising; the gazes have no curve.
MCCurves == "self_touch" :> << <<0, 0>>, <<50, 40>>, <<100, 90>> >>

Gaze(start, end) ==
    [class |-> "gaze_away_from_camera", start |-> start, end |-> end, score |-> 30,
     direction |-> "left"]

Touch(start, end, score) ==
    [class |-> "self_touch", start |-> start, end |-> end, score |-> score, direction |-> Absent]

Wave(start, end) ==
    [class |-> "repetitive_hand_movement", start |-> start, end |-> end, score |-> 99,
     direction |-> Absent]

Signal(start, end, face, luminance, framing) ==
    [start |-> start, end |-> end, face |-> face, luminance |-> luminance, framing |-> framing,
     landmarks |-> 0]

\* Calibrated, a touch of 80 is 70: between the tuned gate and the default one.
MCVisualResults ==
    0 :> {[events |-> <<Gaze(0, 2), Touch(2, 3, 95)>>, quality |-> <<Signal(0, 3, 90, 50, 90)>>],
          [events |-> <<Touch(2, 4, 80)>>, quality |-> <<Signal(0, 3, 40, 10, 90)>>],
          [events |-> <<>>, quality |-> <<>>]}
    @@ 1 :> {[events |-> <<Touch(3, 5, 90), Wave(4, 6)>>, quality |-> <<Signal(2, 6, 90, 10, 90)>>],
             [events |-> <<Gaze(6, 8), Gaze(7, 9)>>,
              quality |-> <<Signal(3, 5, 90, 50, 90), Signal(5, 8, 90, 50, 20)>>]}
    @@ 2 :> {[events |-> <<[Gaze(8, 9) EXCEPT !.direction = Absent]>>, quality |-> <<>>],
             [events |-> <<Gaze(0, 9)>>, quality |-> <<Signal(1, 9, 90, 50, 90)>>]}

Said(class, start, end, text) ==
    [class |-> class, start |-> start, end |-> end, score |-> 70, text |-> text, role |-> Absent]

Word(start, end, text) == [start |-> start, end |-> end, score |-> 70, text |-> text]

Reading(indicator, start, end, value) ==
    [indicator |-> indicator, start |-> start, end |-> end, score |-> 60, value |-> value]

Answer(words, events, readings, stable) ==
    [words |-> words, events |-> events, prosody |-> readings, stable |-> stable]

\* Silence is measured as zero, or not at all.  The words come in no order, and
\* two of them over one span.  The second answer to chunk 0 has one word twice
\* in a bucket: the tables refuse it, unless the next chunk comes, whose first
\* word is behind its frontier.  The third is refused as it is built.
MCSpeechResults ==
    0 :> {Answer(<<Word(3, 4, "si"), Word(1, 2, "este")>>,
                 <<Said("filled_pause", 3, 4, ""), Said("lexical_filler", 1, 2, "este")>>,
                 <<Reading("voiced_ratio", 0, 4, <<0>>), Reading("pitch_mean_hz", 0, 4, Null)>>, 2),
          Answer(<<Word(2, 3, "este"), Word(3, 4, "este")>>, <<>>, <<>>, 4),
          Answer(<<>>, <<Said("lexical_filler", 1, 2, "")>>, <<>>, 0)}
    @@ 1 :> {Answer(<<Word(5, 6, "si"), Word(3, 4, "si"), Word(5, 6, "este")>>,
                    <<Said("filled_pause", 5, 6, ""), Said("lexical_filler", 5, 6, "este")>>, <<>>, 2)}

\* The identifiers of events, and those of words.
MCDigestOf ==
    LET rank == "filled_pause" :> 1 @@ "lexical_filler" :> 0 @@ "gaze_away_from_camera" :> 4
                @@ "self_touch" :> 3 @@ "repetitive_hand_movement" :> 2
    IN  [id \in (DOMAIN rank) \X (0 .. 5) \X {"", "este"} |->
            12 * rank[id[1]] + 2 * id[2] + (IF id[3] = "" THEN 0 ELSE 1)]
        @@ [id \in (0 .. 5) \X {"este", "si"} |->
               -1 - 2 * id[1] - (IF id[2] = "si" THEN 0 ELSE 1)]

=============================================================================
