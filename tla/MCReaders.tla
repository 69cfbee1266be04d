------------------------------ MODULE MCReaders ------------------------------
(***************************************************************************)
(* The three readers for TLC: a behaviour here is one of a single reader.  *)
(***************************************************************************)
EXTENDS Readers, TLC

(***************************************************************************)
(* The pages: one channel or two, the last one perhaps not locked; and     *)
(* pages with a fault: a row without its last cell, a repeated or missing  *)
(* index, another wording of a text, a count the repeated column lacks.    *)
(***************************************************************************)
Channel(index, locked, counts) ==
    [index |-> index, locked |-> locked, counts |-> counts,
     power |-> IF locked = "Locked" THEN "5" ELSE "----"]

CountTexts ==
    {<<"0", "0", "0">>, <<"70", "7", "0">>, <<"70", "0", "7">>, <<"----", "----", "----">>}
Lasts(index) ==
    {Channel(index, locked, counts) : locked \in {"Locked", "Not Locked"}, counts \in CountTexts}

RightPages ==
    [channels : {<<c>> : c \in Lasts("1")} \cup
                {<<Channel("1", "Locked", counts), c>> : counts \in CountTexts, c \in Lasts("2")},
     quirk : BOOLEAN, upstreamFirst : BOOLEAN, close : {"td", "th"}, fault : {None}]

PageOf(index, locked, fault) ==
    [channels |-> <<Channel("1", "Locked", <<"70", "7", "0">>), Channel(index, locked, <<"70", "0", "7">>)>>,
     quirk |-> FALSE, upstreamFirst |-> FALSE, close |-> "td", fault |-> fault]

FaultyPages ==
    {PageOf("2", "Locked", row) :
        row \in {"Index", "Lock Status", "Power Level", "Unerrored", "Correctable", "Uncorrectable"}}
    \cup {PageOf("1", "Locked", None), PageOf("----", "Locked", None), PageOf("2", "Locked?", None),
          [PageOf("2", "Locked", None) EXCEPT !.channels[1].power = "5?"],
          [PageOf("2", "Locked", None) EXCEPT !.channels[2].counts[3] = "7?"],
          [PageOf("2", "Locked", None) EXCEPT !.quirk = TRUE, !.channels[2].counts[2] = "----"]}

MCTexts ==
    {"span", "td", "th", "acs-th", "tr", "table", "label", "value", "caption", "row_label", "cell",
     "Internet", "Active", "Downstream", "Upstream", "Channel Bonding Value", "CM Error Codewords",
     "Index", "Lock Status", "Power Level", "Unerrored", "Correctable", "Uncorrectable", "",
     "0", "1", "2", "5", "7", "70", "----", "5?", "7?", "Locked", "Not Locked", "Locked?"}

MCPages == RightPages \cup FaultyPages

(***************************************************************************)
(* A HomePod alone, in a group it leads, and in one it follows.            *)
(***************************************************************************)
Playback(audio, leads, group) == [audio |-> audio, leads |-> leads, group |-> group]

Alone == Playback(FALSE, TRUE, "a")
MCPods == {Alone, Playback(TRUE, TRUE, "a+b"), Playback(TRUE, FALSE, "b")}

RecordInit == Record!Init /\ pod = Alone

ReadersInit == Init /\ Page!Init /\ RecordInit

ReadersNext ==
    \/ Page!Init /\ RecordInit /\ Next /\ UNCHANGED <<pageVars, recordVars>>
    \/ RecordInit /\ Init /\ Page!Next /\ UNCHANGED <<vars, recordVars>>
    \/ Page!Init /\ Init /\ Record!Next /\ UNCHANGED <<vars, pageVars>>

ReadersSpec == ReadersInit /\ [][ReadersNext]_<<vars, pageVars, recordVars>>
=============================================================================
