------------------------------ MODULE EvidenceRun ------------------------------
(***************************************************************************)
(* One run, from the configuration its session froze to the document it    *)
(* completes with: the stream handler reads a configuration, the           *)
(* coordinator assembles what the runtimes answer, and the completion      *)
(* pairs the events and reports the quality.                               *)
(*                                                                         *)
(* The runtimes are behind ports and may answer anything, fail, or answer  *)
(* what the domain refuses.  Chunks arrive in any order, again, or never.  *)
(* The pauses, and the events that become final during the stream, are     *)
(* StreamingCoordinator's; here all become final at the completion, and a  *)
(* session that completed is read by any build.                            *)
(***************************************************************************)
EXTENDS EvidenceRows, ConfigurationStore

CONSTANTS
    VisualResults,    \* what the vision runtime may answer, by chunk
    SpeechResults,    \* what the speech runtime may answer, by chunk
    Horizon           \* bound: no event ends beyond

(* What the runtime ports declare: application/ports/runtimes.py.          *)
VisualHypotheses ==
    {h \in [class : STRING, start : Int, end : Int, score : Int, direction : STRING] :
        EventId(h.class, h.start, "") \in DOMAIN DigestOf}

Signals ==
    [start : Int, end : Int, face : Int, luminance : Int, framing : Int, landmarks : Int]

WordHypotheses ==
    {h \in [text : STRING, start : Int, end : Int, score : Int] :
        <<h.start \div Bucket, h.text>> \in DOMAIN DigestOf}

SpeechHypotheses ==
    {h \in [class : STRING, start : Int, end : Int, score : Int, text : STRING, role : STRING] :
        EventId(h.class, h.start, h.text) \in DOMAIN DigestOf}

ProsodyHypotheses ==
    [indicator : DOMAIN Units, start : Int, end : Int, score : Int, value : Seq(Int)]

ASSUME ResultsAssumption ==
    /\ \A n \in DOMAIN VisualResults : \A result \in VisualResults[n] :
          result.events \in Seq(VisualHypotheses) /\ result.quality \in Seq(Signals)
    /\ \A n \in DOMAIN SpeechResults : \A result \in SpeechResults[n] :
          /\ result.words \in Seq(WordHypotheses)
          /\ result.events \in Seq(SpeechHypotheses)
          /\ result.prosody \in Seq(ProsodyHypotheses)

\* FusionWindow refuses a negative width.
ASSUME ThresholdsAssumption ==
    \A snapshot \in {DefaultOf[b] : b \in Builds} \union Publishable :
        snapshot.gate \in Int /\ snapshot.width \in Nat

VARIABLES
    stream,        \* the session that streams, and the build that serves it
    configuration, \* the snapshot its handler read
    arrived,       \* chunks accepted, by modality
    tokens,        \* the transcript
    speechEvents,  \* by identifier
    prosody,       \* the readings, in order of arrival
    visualEvents,  \* by identifier
    assessments,   \* the measurements of the quality report
    availability,  \* the availability records of the quality report
    warned,        \* the windows the client was warned of, in order
    gatedOut,      \* hypotheses the gate dropped
    observed,      \* history: the visual hypotheses of the batches that were assembled
    document,      \* what the completion stored: its manifest, and the evidence
    rows,          \* the evidence as the tables hold it
    phase          \* "none", "live", "completed", or "raised": an error
                   \* unwound the handler

audioVars == <<tokens, speechEvents, prosody>>
videoVars == <<visualEvents, assessments, availability, warned, gatedOut, observed>>
evidenceVars == <<audioVars, videoVars>>
storeVars == <<document, rows>>
vars == <<configurationVars, stream, configuration, arrived, evidenceVars, storeVars, phase>>

Chunks == [audio |-> DOMAIN SpeechResults, video |-> DOMAIN VisualResults]

Init ==
    /\ ConfigurationInit
    /\ stream = None /\ configuration = None
    /\ arrived = [audio |-> {}, video |-> {}]
    /\ tokens = <<>> /\ speechEvents = <<>> /\ prosody = <<>>
    /\ visualEvents = <<>> /\ assessments = <<>> /\ availability = <<>> /\ warned = <<>>
    /\ gatedOut = 0 /\ observed = <<>>
    /\ document = None /\ rows = None
    /\ phase = "none"

Administer ==
    /\ ConfigurationNext
    /\ UNCHANGED <<stream, configuration, arrived, evidenceVars, storeVars, phase>>

(* The handler takes the configuration that is current when it begins.     *)
Open(s, b) ==
    /\ phase = "none" /\ s \in Answered
    /\ phase' = "live"
    /\ stream' = [session |-> s, build |-> b]
    /\ configuration' = Current(b)
    /\ UNCHANGED <<configurationVars, arrived, evidenceVars, storeVars>>

Offer(m, n) ==
    /\ phase = "live" /\ n \notin arrived[m]
    /\ arrived' = [arrived EXCEPT ![m] = @ \union {n}]
    /\ UNCHANGED <<configurationVars, stream, configuration, storeVars>>

(* A dictionary by identifier: an event seen again replaces itself.        *)
Updated(held, events) ==
    LET under(i) == {n \in DOMAIN events : events[n].id = i}
    IN  [i \in DOMAIN held \union {events[n].id : n \in DOMAIN events} |->
            IF under(i) = {} THEN held[i] ELSE events[Max(under(i))]]

(* A word behind the frontier is refused once the constructors have        *)
(* passed.                                                                 *)
IngestAudio(n, result) ==
    LET assembled == AssembleSpeech(result)
        behind    == \E k \in DOMAIN assembled.tokens : assembled.tokens[k].start < Frontier(tokens)
    IN  /\ Offer("audio", n)
        /\ IF assembled.raises \/ behind
           THEN phase' = "raised" /\ UNCHANGED audioVars
           ELSE /\ tokens' = FinalizeThrough(WithProvisional(tokens, assembled.tokens), result.stable)
                /\ speechEvents' = Updated(speechEvents, assembled.events)
                /\ prosody' = prosody \o assembled.prosody
                /\ UNCHANGED phase
        /\ UNCHANGED videoVars

\* _publish_quality_warnings
Warnings(windows) == Those(windows, {n \in DOMAIN windows : IsUnusable(windows[n])})

IngestVideo(n, result) ==
    LET assembled == AssembleVisual(result, configuration.gate)
    IN  /\ Offer("video", n)
        /\ IF assembled.raises
           THEN phase' = "raised" /\ UNCHANGED videoVars
           ELSE /\ visualEvents' = Updated(visualEvents, assembled.events)
                /\ assessments' = assessments \o FlattenSeq(Mapped(result.quality, AssessmentsOf))
                /\ availability' = availability \o assembled.windows
                /\ gatedOut' = gatedOut + assembled.gatedOut
                /\ warned' = warned \o Warnings(assembled.windows)
                /\ observed' = observed \o result.events
                /\ UNCHANGED phase
        /\ UNCHANGED audioVars

(* A runtime raises: the chunk is accepted, and no record says so.         *)
RuntimeFails(m, n) ==
    /\ Offer(m, n)
    /\ UNCHANGED <<evidenceVars, phase>>

(* What the ledger of a modality confirms missing at the close, of how     *)
(* many: the numbers below the highest that came.  The window, which is    *)
(* the time captured, is SessionService's.                                 *)
LossOf(m) ==
    LET expected == Max({-1} \union arrived[m]) + 1
    IN  [modality |-> m, metric |-> "chunk_loss_ratio", start |-> 0, end |-> 0,
         value |-> Measured(<<expected - Cardinality(arrived[m]), expected>>, "ratio", Certain)]

(* The evidence the completion puts together. *)
Bundle ==
    LET speech == {speechEvents[i] : i \in DOMAIN speechEvents}
        visual == {visualEvents[i] : i \in DOMAIN visualEvents}
    IN  [tokens        |-> tokens,
         speech        |-> speech,
         visual        |-> visual,
         prosody       |-> prosody,
         assessments   |-> assessments \o <<LossOf("audio")>>
                             \o (IF arrived.video = {} THEN <<>> ELSE <<LossOf("video")>>),
         availability  |-> availability,
         cooccurrences |-> Correlate(speech, visual, configuration.width)]

ModelsUsed(bundle) ==
    (IF bundle.speech = {} THEN {} ELSE {"audio"}) \union (IF bundle.visual = {} THEN {} ELSE {"video"})

(* ProvenanceManifest: no build speaks of a taxonomy that is not its own.  *)
Manifested(b, taxonomy) == taxonomy = DefaultOf[b].taxonomy

(* The manifest, or the tables, may refuse the result after the session    *)
(* has been saved as completing.                                           *)
Complete ==
    /\ phase = "live"
    /\ IF Manifested(stream.build, configuration.taxonomy) /\ Accepted(Bundle)
       THEN /\ phase' = "completed"
            /\ rows' = RowsOf(Bundle)
            /\ document' = [evidence      |-> Bundle,
                           configuration |-> configuration.id,
                           taxonomy      |-> configuration.taxonomy,
                           models        |-> ModelsUsed(Bundle)]
       ELSE phase' = "raised" /\ UNCHANGED storeVars
    /\ UNCHANGED <<configurationVars, stream, configuration, arrived, evidenceVars>>

Next ==
    \/ Administer
    \/ \E s \in Requests, b \in Builds : Open(s, b)
    \/ \E n \in Chunks.audio : \E result \in SpeechResults[n] : IngestAudio(n, result)
    \/ \E n \in Chunks.video : \E result \in VisualResults[n] : IngestVideo(n, result)
    \/ \E m \in {"audio", "video"} : \E n \in Chunks[m] : RuntimeFails(m, n)
    \/ Complete

Spec == Init /\ [][Next]_vars

-----------------------------------------------------------------------------
(***************************************************************************)
(* Properties.                                                             *)
(***************************************************************************)

(* Two spans lie within a distance when each one, widened by it, reaches   *)
(* the other.                                                              *)
WithinReach(e, f, width) == e.start <= f.end + width /\ f.start <= e.end + width

(* The co-occurrences of a document are all the pairs within the fusion    *)
(* window it ran under and no others, once each, in an order that depends  *)
(* on the events alone, whatever batches brought them and in which order   *)
(* (cooccurrence.py, NFR-015).                                             *)
CooccurrencesAreComplete ==
    phase = "completed" =>
        LET evidence == document.evidence
            pairs == evidence.cooccurrences
            before(p, q) == \/ InOrder(speechEvents[p.speech], speechEvents[q.speech])
                            \/ /\ p.speech = q.speech
                               /\ InOrder(visualEvents[p.visual], visualEvents[q.visual])
        IN  /\ {<<p.speech, p.visual>> : p \in ToSet(pairs)} =
                   {<<q[1].id, q[2].id>> :
                       q \in {q \in evidence.speech \X evidence.visual :
                                  WithinReach(q[1], q[2], configuration.width)}}
            /\ \A j, k \in DOMAIN pairs : j < k => before(pairs[j], pairs[k])

(* A hypothesis of an optional class counts only with a fitted probability *)
(* that reaches the gate of the run's configuration.                       *)
Confirmed(h) ==
    h.class \in OptionalClasses =>
        h.class \in DOMAIN Curves /\ ApplyCurve(Curves[h.class], h.score) >= configuration.gate

(* What the stream holds is the last confirmed hypothesis under each       *)
(* identifier, and all the others were counted as gated out: no evidence   *)
(* hides for its confidence but an unconfirmed optional class, and none of *)
(* that class shows (visual_assembly.py, FR-022 and FR-029).               *)
HypothesesAreAccounted ==
    LET idOf(h) == EventId(h.class, h.start, "")
        kept == {n \in DOMAIN observed : Confirmed(observed[n])}
        latest(i) == observed[Max({n \in kept : idOf(observed[n]) = i})]
    IN  /\ DOMAIN visualEvents = {idOf(observed[n]) : n \in kept}
        /\ \A i \in DOMAIN visualEvents : visualEvents[i] = VisualEventOf(latest(i))
        /\ gatedOut = Len(observed) - Cardinality(kept)

(* Whoever reads a completed session, on a build that can speak of its     *)
(* taxonomy, is given what was completed, measured zeros, missing values,  *)
(* calibrations and the order of the words included, although it is put    *)
(* together again from the rows of seven tables that no query orders       *)
(* (_read_bundle, transcript.py; mapping.py: "A mapping bug does not       *)
(* raise").                                                                *)
DocumentsReadBack ==
    phase = "completed" =>
        \A b \in Builds : Manifested(b, document.taxonomy) => Render(BundleOf(rows)) = Render(document.evidence)

(* The two questions a report answers never contradict each other: a       *)
(* usable window has no reason against it, and one that is neither usable  *)
(* nor refused for a reason has not been looked at (assessment.py).        *)
ReasonsMatchUsability ==
    \A a \in 0 .. Horizon : \A z \in a + 1 .. Horizon :
        LET window == [start |-> a, end |-> z]
            reason == UnavailabilityFor(availability, window)
        IN  /\ IsUsable(availability, window) => reason = Absent
            /\ reason = Absent /\ ~IsUsable(availability, window)
                   => Overlapping(availability, window) = {}

-----------------------------------------------------------------------------
(***************************************************************************)
(* What the documents say and the code does not do.                        *)
(***************************************************************************)

(* ADR-010: "Configuration is frozen per session. A snapshot is bound at   *)
(* creation and does not move underneath a presentation."                  *)
RunsUnderItsSnapshot ==
    document # None => document.configuration = creation[stream.session].held.id

(* taxonomy.py: "historical results keep resolving against the version     *)
(* they were produced under".                                              *)
HistoryStaysReadable == phase = "completed" => \A b \in Builds : Manifested(b, document.taxonomy)

(* streaming.py, ingest_video: "A failure here never fails the session."   *)
VideoNeverFails == [][\A n \in Chunks.video : n \in arrived'.video \ arrived.video => phase' # "raised"]_vars

=============================================================================
