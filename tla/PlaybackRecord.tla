---------------------------- MODULE PlaybackRecord ----------------------------
(***************************************************************************)
(* What the AirPlay exporter says a HomePod is doing: the reply to its     *)
(* unicast query (airplay/resolver.py), the fields of the TXT record and   *)
(* what they mean (airplay/state.py), and the playback gauges              *)
(* (airplay/collector.py).  AirplayPoll has the poll this is a part of; a  *)
(* HomePod's query and record are independent of the others', so there is  *)
(* one HomePod here.                                                       *)
(*                                                                         *)
(* The HomePod is the environment.  It plays, stops, and joins groups; an  *)
(* update may change the form of its record; its reply carries records of  *)
(* its other names too, in any order, perhaps without the one asked for,   *)
(* and a record may be cut anywhere.  Another device may have its address. *)
(***************************************************************************)
EXTENDS Integers, SequencesExt

CONSTANTS
    Pods,   \* what the HomePod may be doing: [audio, leads, group]
    None    \* no answer, no record, no state

VARIABLES
    pod,       \* what the HomePod is doing
    form,      \* "seen": the form of its record; or what an update changed of it
    step,      \* where the poll is: "idle", "asked", "answered"
    answer,    \* what resolve_unicast returned: [answered, txt], or None
    snapshot,  \* the published observation: [answered, state, reason], or None
    said,      \* history: what the HomePod was doing when it sent the answer
    shown      \* history: the same, of the published observation

vars == <<pod, form, step, answer, snapshot, said, shown>>

(***************************************************************************)
(* The record.  A value that is cut is another value, perhaps a right one: *)
(* fewer digits have no bit 20, and half of a joined id is an id.          *)
(***************************************************************************)
AudioOf == [flags \in {"0x140404", "0x40404", "0x14", "0x4"} |-> flags = "0x140404"]

Half(value) ==
    CASE value = "0x140404" -> "0x14" [] value = "0x40404" -> "0x4" [] value = "a+b" -> "a"
      [] OTHER -> ""

Forms == {"seen", "no flags", "flags", "igl", "gid"}

Record(p, f) ==
    LET flags == [key |-> "flags",
                  value |-> IF f = "flags" THEN "-1" ELSE IF p.audio THEN "0x140404" ELSE "0x40404"]
        gid == [key |-> "gid", value |-> IF f = "gid" THEN "unprintable" ELSE p.group]
        igl == [key |-> "igl", value |-> IF f = "igl" THEN "yes" ELSE IF p.leads THEN "1" ELSE "0"]
        pk == [key |-> "pk", value |-> "0"]
    IN  IF f = "no flags" THEN <<gid, igl, pk>> ELSE <<flags, gid, igl, pk>>

\* The record on the wire: all of it, or cut within its n-th field.
WholeField(field) == [key |-> field.key, value |-> field.value, whole |-> TRUE]
CutField(field) == [key |-> field.key, value |-> Half(field.value), whole |-> FALSE]

Whole(fields) == [i \in DOMAIN fields |-> WholeField(fields[i])]
CutAt(fields, n) ==
    [i \in 1 .. n |-> IF i = n THEN CutField(fields[i]) ELSE WholeField(fields[i])]
Cuts(fields) == {CutAt(fields, n) : n \in DOMAIN fields}

\* Nothing says in which order the fields come.
WholeTexts(p, f) == {Whole(Record(p, f)), Whole(Reverse(Record(p, f)))}
RecordTexts(p, f) == WholeTexts(p, f) \cup Cuts(Record(p, f)) \cup Cuts(Reverse(Record(p, f)))

\* The HomePod's reply, and that of another device.
Other == [name |-> "other", kind |-> "TXT",
          text |-> Whole(Record([audio |-> TRUE, leads |-> TRUE, group |-> "b"], "seen"))]
Srv == [name |-> "pod", kind |-> "SRV", text |-> <<>>]
Txt(text) == [name |-> "pod", kind |-> "TXT", text |-> text]
Replies(text) == {<<Srv, Txt(text), Other>>, <<Other, Txt(text)>>, <<Other, Srv>>}

(***************************************************************************)
(* parse_txt, playback_state and answer_from_packet.                       *)
(***************************************************************************)
Fields(text, indices) ==
    [key \in {text[i].key : i \in indices} |->
        text[CHOOSE i \in indices : text[i].key = key].value]

\* A mistake: what there is of a field that was cut is read.
ReadToTheEnd(text) == Fields(text, DOMAIN text)

\* A field that was cut is left out, and what would come after it.
ParseTxt(text) == Fields(text, {i \in DOMAIN text : \A j \in 1 .. i : text[j].whole})

Sanitised(value) == IF value = "unprintable" THEN "" ELSE value

\* Why the record is not read, None if it is.
Unreadable(txt) ==
    IF txt = None THEN "no record"
    ELSE IF {"flags", "gid", "igl"} \ DOMAIN txt # {} THEN "field missing"
    ELSE IF txt["flags"] \notin DOMAIN AudioOf THEN "flags"
    ELSE IF txt["igl"] \notin {"0", "1"} THEN "igl"
    ELSE IF Sanitised(txt["gid"]) = "" THEN "gid"
    ELSE None

PlaybackState(txt) ==
    IF Unreadable(txt) # None THEN None
    ELSE [audio |-> AudioOf[txt["flags"]], leads |-> txt["igl"] = "1", group |-> Sanitised(txt["gid"])]

\* Of a reply only the records of the name that was asked for count.
AnswerFromPacket(records) ==
    LET mine == {i \in DOMAIN records : records[i].name = "pod"}
        texts == {i \in mine : records[i].kind = "TXT"}
        first == CHOOSE i \in texts : \A j \in texts : i <= j
    IN  [answered |-> mine # {}, txt |-> IF texts = {} THEN None ELSE ParseTxt(records[first].text)]

\* What is published of an answer.
ServiceObservation(a) ==
    IF a = None THEN [answered |-> None, state |-> None, reason |-> None]
    ELSE [answered |-> a.answered,
          state |-> IF a.answered THEN PlaybackState(a.txt) ELSE None,
          reason |-> IF a.answered THEN Unreadable(a.txt) ELSE None]

(***************************************************************************)
(* AirplayCollector.collect: the series of the HomePod, by name.           *)
(***************************************************************************)
UnicastSeries ==
    IF snapshot.answered = None THEN <<>>
    ELSE [unicast_resolved |-> snapshot.answered]

\* Absent, not 0, when the HomePod did not answer or cannot be read.
PlaybackSeries ==
    IF snapshot.state # None
    THEN [state_readable |-> TRUE, audio_playing |-> snapshot.state.audio,
          group_leader |-> snapshot.state.leads, group_info |-> snapshot.state.group]
    ELSE IF snapshot.reason # None THEN [state_readable |-> FALSE] ELSE <<>>

Collected ==
    IF snapshot = None THEN <<>>
    ELSE [name \in DOMAIN UnicastSeries \cup DOMAIN PlaybackSeries |->
             IF name \in DOMAIN UnicastSeries THEN UnicastSeries[name] ELSE PlaybackSeries[name]]

(***************************************************************************)
(* The values of the state.                                                *)
(***************************************************************************)
States == [audio : BOOLEAN, leads : BOOLEAN, group : STRING]
Reasons == {"no record", "field missing", "flags", "igl", "gid"}

TxtRecords == {ParseTxt(text) : text \in UNION {RecordTexts(p, f) : p \in Pods, f \in Forms}}
UnicastAnswers == [answered : BOOLEAN, txt : TxtRecords \cup {None}]
Observations == [answered : BOOLEAN \cup {None}, state : States \cup {None},
                 reason : Reasons \cup {None}]

\* Of the HomePod: what it was when it answered, and that all of its record came.
Moments == [pod : Pods, form : Forms, whole : BOOLEAN]

\* A HomePod is in a group, alone perhaps, whose id can be printed.
Assumption ==
    /\ \A p \in Pods : p \in States /\ p.group \notin {"", "unprintable"}
    /\ None \notin BOOLEAN /\ None \notin Reasons /\ None \notin States
    /\ None \notin TxtRecords /\ None \notin UnicastAnswers
    /\ None \notin Observations /\ None \notin Moments

\* The state is well formed.
TypeOK ==
    /\ pod \in Pods /\ form \in Forms
    /\ step \in {"idle", "asked", "answered"}
    /\ answer # None => answer.answered \in BOOLEAN /\ step = "answered"
    /\ snapshot # None => snapshot \in Observations
    /\ said # None => said \in Moments
    /\ shown # None => shown \in Moments

(***************************************************************************)
(* The HomePod and the poll.                                               *)
(***************************************************************************)
Init ==
    /\ pod \in Pods /\ form = "seen"
    /\ step = "idle" /\ answer = None /\ snapshot = None
    /\ said = None /\ shown = None

Plays ==
    /\ pod' \in Pods
    /\ UNCHANGED <<form, step, answer, snapshot, said, shown>>

Updates ==
    /\ form' \in Forms
    /\ UNCHANGED <<pod, step, answer, snapshot, said, shown>>

StartPoll ==
    /\ step = "idle"
    /\ step' = "asked"
    /\ UNCHANGED <<pod, form, answer, snapshot, said, shown>>

\* The HomePod replies, another device does; there is no reply, or none that
\* can be decoded; the query could not be made.
ResolveUnicast ==
    /\ step = "asked"
    /\ step' = "answered"
    /\ \/ \E text \in RecordTexts(pod, form) : \E reply \in Replies(text) :
             /\ answer' = AnswerFromPacket(reply)
             /\ said' = [pod |-> pod, form |-> form,
                         whole |-> text \in WholeTexts(pod, form) /\ Txt(text) \in Range(reply)]
       \/ answer' = AnswerFromPacket(<<Other>>) /\ said' = None
       \/ answer' = [answered |-> FALSE, txt |-> None] /\ said' = None
       \/ answer' = None /\ said' = None
    /\ UNCHANGED <<pod, form, snapshot, shown>>

EndPoll == step' = "idle" /\ answer' = None /\ said' = None

Publish ==
    /\ step = "answered"
    /\ snapshot' = ServiceObservation(answer) /\ shown' = said
    /\ EndPoll
    /\ UNCHANGED <<pod, form>>

\* Another query, or the inventory, raised.
PollFails ==
    /\ step # "idle"
    /\ snapshot' = None /\ shown' = None
    /\ EndPoll
    /\ UNCHANGED <<pod, form>>

Next == Plays \/ Updates \/ StartPoll \/ ResolveUnicast \/ Publish \/ PollFails

Spec == Init /\ [][Next]_vars

(***************************************************************************)
(* Properties.                                                             *)
(***************************************************************************)

Exported(name) == name \in DOMAIN Collected

\* "Never guessed at" (state.py:26-28): the playback gauges are what the HomePod
\* was doing when it answered, or absent.  No other device's record, none of
\* its other names and no part of a value is taken for its own, a HomePod that
\* is silent is shown as neither resolved, playing nor unreadable, and a record
\* that came whole and in the form seen is read.
NeverGuessed ==
    /\ (Exported("unicast_resolved") /\ Collected.unicast_resolved) <=> shown # None
    /\ Exported("state_readable") <=> shown # None
    /\ Exported("audio_playing") =>
          /\ shown.form = "seen"
          /\ Collected.audio_playing = shown.pod.audio
          /\ Collected.group_leader = shown.pod.leads
          /\ Collected.group_info = shown.pod.group
    /\ (shown # None /\ shown.whole /\ shown.form = "seen") => Exported("audio_playing")
=============================================================================
