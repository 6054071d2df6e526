----------------------------- MODULE EvidenceRows -----------------------------
(***************************************************************************)
(* The evidence of a run as rows, and the document a reader is given: the  *)
(* completion writes one row per word, event, reading, assessment, window  *)
(* and pair; each read puts the document together again from the rows and  *)
(* renders it.  No query orders its rows.                                  *)
(*                                                                         *)
(* A column that may be null holds a sequence of at most one value.  The   *)
(* tenant and run columns, the same in every row, are left out.            *)
(***************************************************************************)
EXTENDS EvidenceRules

Null == <<>>

Mapped(s, Op(_)) == [n \in DOMAIN s |-> Op(s[n])]

-----------------------------------------------------------------------------
(* Readings and words: domain/shared/measurement.py,                       *)
(* services/speech_assembly.py                                             *)

Certain == [value |-> 100, calibrated |-> TRUE]

Measured(value, unit, confidence) == [value |-> value, unit |-> unit, confidence |-> confidence]

Unavailable(reason) == [reason |-> reason]

IsMeasured(indicator) == "value" \in DOMAIN indicator

Units ==
    [mean_intensity_db |-> "dBFS", pitch_mean_hz |-> "Hz", pitch_stability |-> "ratio",
     speaking_rate_wpm |-> "wpm", articulation_rate_sps |-> "syllables_per_second",
     mean_pause_duration_ms |-> "ms", voiced_ratio |-> "ratio"]

\* The text is part of the identifier: the same word in the same bucket is one.
TokenOf(h) ==
    [id |-> <<h.start \div Bucket, h.text>>, start |-> h.start, end |-> h.end,
     text |-> h.text, confidence |-> Calibrate("word", h.score), final |-> FALSE]

IsToken(t) == IsInterval(t) /\ t.text # ""

ProsodyOf(h) ==
    [indicator |-> h.indicator, start |-> h.start, end |-> h.end, model |-> "audio",
     value |-> IF h.value = Null THEN Unavailable("insufficient_observation")
               ELSE Measured(h.value[1], Units[h.indicator], Calibrate(h.indicator, h.score))]

\* What was observed of the recording is measured even where the gate refuses it.
AssessmentsOf(signal) ==
    LET of(metric, value) == [modality |-> "video", metric |-> metric, start |-> signal.start,
                              end |-> signal.end, value |-> Measured(value, "ratio", Certain)]
    IN  << of("face_visibility_ratio", signal.face), of("mean_luminance", signal.luminance),
           of("framing_coverage", signal.framing), of("landmark_confidence", signal.landmarks) >>

AssembleSpeech(result) ==
    LET tokens   == Mapped(result.words, TokenOf)
        events   == Mapped(result.events, SpeechEventOf)
        readings == Mapped(result.prosody, ProsodyOf)
    IN  [raises  |-> \/ \E n \in DOMAIN tokens : ~IsToken(tokens[n])
                     \/ \E n \in DOMAIN events : ~IsSpeechEvent(events[n])
                     \/ \E n \in DOMAIN readings : ~IsInterval(readings[n]),
         tokens  |-> tokens,
         events  |-> events,
         prosody |-> readings]

(* The frontier, and the two ways a transcript grows:                      *)
(* transcript/transcript.py.                                               *)
Frontier(tokens) == Max({0} \union {tokens[n].end : n \in {k \in DOMAIN tokens : tokens[k].final}})

FinalTokens(tokens) == Those(tokens, {n \in DOMAIN tokens : tokens[n].final})

(* By start, then end, then identifier; a stable sort.                     *)
Canonical(tokens) ==
    LET before(j, k) == \/ InOrder(tokens[j], tokens[k])
                        \/ j < k /\ ~InOrder(tokens[k], tokens[j])
        place == Sorted(DOMAIN tokens, before)
    IN  [k \in DOMAIN tokens |-> tokens[place[k]]]

\* Variant: the new words stand as the runtime gave them.
AppendedOnly(tokens, words) == FinalTokens(tokens) \o words

WithProvisional(tokens, words) == Canonical(FinalTokens(tokens) \o words)

FinalizeThrough(tokens, boundary) ==
    IF boundary <= Frontier(tokens) THEN tokens
    ELSE Mapped(tokens, LAMBDA t : [t EXCEPT !.final = @ \/ t.end <= boundary])

-----------------------------------------------------------------------------
(* Rows, and back: postgres/mapping.py, postgres/evidence_repository.py *)

StateOf(confidence) == IF confidence.calibrated THEN "calibrated" ELSE "raw"

ConfidenceFrom(value, state) == [value |-> value, calibrated |-> state = "calibrated"]

Nullable(x) == IF x = Absent THEN Null ELSE <<x>>

OrAbsent(column) == IF column = Null THEN Absent ELSE column[1]

TokenRow(t) ==
    [id |-> t.id, text |-> t.text, start |-> t.start, end |-> t.end,
     confidence |-> t.confidence.value, calibration |-> StateOf(t.confidence),
     status |-> IF t.final THEN "final" ELSE "provisional"]

RowToken(row) ==
    [id |-> row.id, text |-> row.text, start |-> row.start, end |-> row.end,
     confidence |-> ConfidenceFrom(row.confidence, row.calibration),
     final |-> row.status = "final"]

SpeechRow(e) ==
    [id |-> e.id, class |-> e.class, start |-> e.start, end |-> e.end, text |-> e.text,
     role |-> Nullable(e.role), confidence |-> e.confidence.value,
     calibration |-> StateOf(e.confidence)]

RowSpeech(row) ==
    [id |-> row.id, class |-> row.class, start |-> row.start, end |-> row.end, text |-> row.text,
     role |-> OrAbsent(row.role), confidence |-> ConfidenceFrom(row.confidence, row.calibration)]

VisualRow(e) ==
    [id |-> e.id, class |-> e.class, start |-> e.start, end |-> e.end,
     direction |-> Nullable(e.direction), confidence |-> e.confidence.value,
     calibration |-> StateOf(e.confidence)]

RowVisual(row) ==
    [id |-> row.id, class |-> row.class, start |-> row.start, end |-> row.end,
     direction |-> OrAbsent(row.direction),
     confidence |-> ConfidenceFrom(row.confidence, row.calibration)]

\* A number or a reason, never both and never neither.
ProsodyRow(r) ==
    [indicator |-> r.indicator, start |-> r.start, end |-> r.end,
     measure |->
        IF IsMeasured(r.value)
        THEN [value |-> <<r.value.value>>, unit |-> <<r.value.unit>>, reason |-> Null,
              confidence |-> <<r.value.confidence.value>>,
              calibration |-> <<StateOf(r.value.confidence)>>]
        ELSE [value |-> Null, unit |-> Null, reason |-> <<r.value.reason>>,
              confidence |-> Null, calibration |-> Null]]

MeasureFrom(m) ==
    Measured(m.value[1], m.unit[1], ConfidenceFrom(m.confidence[1], m.calibration[1]))

MissingFrom(m) ==
    Unavailable(IF m.reason = Null THEN "processing_failed" ELSE m.reason[1])

RowProsody(row, model) ==
    [indicator |-> row.indicator, start |-> row.start, end |-> row.end, model |-> model,
     value |-> IF row.measure.value # Null
               THEN MeasureFrom(row.measure) ELSE MissingFrom(row.measure)]

\* The confidence of an assessment has no column.
AssessmentRow(a) ==
    [modality |-> a.modality, metric |-> a.metric, start |-> a.start, end |-> a.end,
     measure |->
        IF IsMeasured(a.value)
        THEN [value |-> <<a.value.value>>, unit |-> <<a.value.unit>>, reason |-> Null]
        ELSE [value |-> Null, unit |-> Null, reason |-> <<a.value.reason>>]]

RowAssessment(row) ==
    [modality |-> row.modality, metric |-> row.metric, start |-> row.start, end |-> row.end,
     value |-> IF row.measure.value # Null
               THEN Measured(row.measure.value[1], row.measure.unit[1], Certain)
               ELSE Unavailable(row.measure.reason[1])]

AvailabilityRow(w) ==
    [start |-> w.start, end |-> w.end, usable |-> ~IsUnusable(w), reason |-> Nullable(w.reason)]

RowAvailability(row) == [start |-> row.start, end |-> row.end, reason |-> OrAbsent(row.reason)]

(* _write_bundle, in one transaction.  The columns of a pair are its       *)
(* fields.                                                                 *)
RowsOf(bundle) ==
    [tokens       |-> {TokenRow(bundle.tokens[n]) : n \in DOMAIN bundle.tokens},
     speech       |-> {SpeechRow(e) : e \in bundle.speech},
     visual       |-> {VisualRow(e) : e \in bundle.visual},
     prosody      |-> Mapped(bundle.prosody, ProsodyRow),
     assessments  |-> Mapped(bundle.assessments, AssessmentRow),
     availability |-> Mapped(bundle.availability, AvailabilityRow),
     pairs        |-> bundle.cooccurrences]

(* What the tables refuse: two words of one identifier (events come from a *)
(* dictionary by theirs), a pair twice, a pair farther apart than its      *)
(* window.                                                                 *)
Accepted(bundle) ==
    LET pairs == bundle.cooccurrences
    IN  /\ IsInjective(Mapped(bundle.tokens, LAMBDA t : t.id))
        /\ \A n \in DOMAIN pairs :
              /\ pairs[n].distance \in 0 .. pairs[n].width
              /\ \A k \in 1 .. n - 1 : <<pairs[k].speech, pairs[k].visual>>
                                         # <<pairs[n].speech, pairs[n].visual>>

(* Prosody rows have no provenance: they are given that of some speech     *)
(* event of the run, and none is known when it has no such event.          *)
AudioModel(rows) == IF rows.speech # {} THEN "audio" ELSE "unknown"

(* _read_bundle.  Only the transcript is given an order again (build). *)
BundleOf(rows) ==
    [tokens        |-> Sorted({RowToken(row) : row \in rows.tokens}, InOrder),
     speech        |-> {RowSpeech(row) : row \in rows.speech},
     visual        |-> {RowVisual(row) : row \in rows.visual},
     prosody       |-> Mapped(rows.prosody, LAMBDA row : RowProsody(row, AudioModel(rows))),
     assessments   |-> Mapped(rows.assessments, RowAssessment),
     availability  |-> Mapped(rows.availability, RowAvailability),
     cooccurrences |-> rows.pairs]

-----------------------------------------------------------------------------
(* The published document: rest/serialization.py.  The transcript is in    *)
(* order; where the order is that of a query, bags.                        *)

DisfluentClasses ==
    {"filled_pause", "lexical_filler", "repetition", "false_start", "self_repair",
     "cut_off", "prolongation"}

CountsAsDisfluency(e) ==
    /\ e.class \in DisfluentClasses
    /\ e.class \in LexicalClasses => e.role = "filler"

\* The provenance of a reading is not rendered.
RenderProsody(r) == [indicator |-> r.indicator, start |-> r.start, end |-> r.end, value |-> r.value]

RenderSpeech(e) == e @@ [disfluency |-> CountsAsDisfluency(e)]

\* render_transcript
RenderTranscript(tokens) ==
    [raw_text |-> Mapped(tokens, LAMBDA t : t.text), finalized_through |-> Frontier(tokens),
     tokens   |-> tokens]

Render(bundle) ==
    [transcript    |-> RenderTranscript(bundle.tokens),
     speech        |-> {RenderSpeech(e) : e \in bundle.speech},
     visual        |-> bundle.visual,
     prosody       |-> ToBag(Mapped(bundle.prosody, RenderProsody)),
     assessments   |-> ToBag(bundle.assessments),
     availability  |-> ToBag(bundle.availability),
     cooccurrences |-> ToBag(bundle.cooccurrences)]

=============================================================================
