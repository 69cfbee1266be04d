------------------------------- MODULE Readers -------------------------------
(***************************************************************************)
(* The three readers of what another program wrote: the neighbour dump of  *)
(* the LAN discovery exporter, the status page of the gateway exporter and *)
(* the playback record of the AirPlay exporter.  They belong to processes  *)
(* that share nothing; here they are side by side, the dump's definitions  *)
(* under their own names.                                                  *)
(***************************************************************************)
EXTENDS NeighbourDump

CONSTANTS
    Texts, Pages, ParseError,   \* of GatewayPage
    Pods                        \* of PlaybackRecord

VARIABLES gateway, line, column, parser, status, cut, pod, form, step, snapshot, said, shown, reply

Page == INSTANCE GatewayPage
Record == INSTANCE PlaybackRecord WITH answer <- reply

pageVars == <<gateway, line, column, parser, status, cut>>
recordVars == <<pod, form, step, snapshot, said, shown, reply>>

ASSUME PageAssumption == Page!Assumption
ASSUME RecordAssumption == Record!Assumption

(***************************************************************************)
(* The properties of the page and the record (those of the dump are        *)
(* NeighbourDump's).                                                       *)
(***************************************************************************)

\* The states are well formed.
ReadersTypeOK == TypeOK /\ Page!TypeOK /\ Record!TypeOK

\* A status of the gateway is what the whole page says, each channel with its
\* own codeword counts, or there is none (gateway/parser.py).
PageWholeOrNothing == Page!WholeOrNothing /\ Page!OwnCountsOnly

\* A whole page gives a status, and only what it lacks is missing from it.
PageWholeParses == Page!WholePageParses

\* A HomePod is shown as what its own record says it does, or as unknown
\* (airplay/state.py, airplay/collector.py).
PlaybackNeverGuessed == Record!NeverGuessed
=============================================================================
