---------------------------- MODULE MCTablesTimers ----------------------------
(* Six components that promise something of every state, side by side: one  *)
(* of them is chosen at the start and the others rest.                       *)
(*                                                                           *)
(* The duplicate table has a source whose numbers wrap, while two others,    *)
(* which send a little, take entries away from it.                           *)
EXTENDS NwkDuplicate, PacketBuffer, SysTimer, SimpleTimer, SoftwareSerial, JsonParser

CONSTANTS s1, s2, s3, p1, t1, t2, t3, pin1, pin2

VARIABLE part

OthersAlike == Permutations({s2, s3}) \cup Permutations({pin1, pin2})

FewFrames == [s \in Sources |-> IF s = s1 THEN 7 ELSE 1]

\* Every kind of value before a string that has to be escaped, behind a key
\* that looks like a comment, and empty ones three deep.
Tricky == String(<<",", QUOTE, "LF">>)
Printed ==
  {Array(<<x, Tricky>>) : x \in {Integer(<<"1">>), Boolean(<<"true">>), Null, String(<<"1">>),
                                 String(<<>>), String(<<BACKSLASH>>)}} \cup
  {Object(<<Pair(<<"k">>, x), Pair(<<"/", "/">>, Array(<<x>>))>>) : x \in {Null, Tricky}} \cup
  {Array(<<Object(<<Pair(<<>>, Array(<<>>))>>)>>)}

Characters == {QUOTE, BACKSLASH, "/", "*", "]", "k"}

Intervals == (t1 :> 1) @@ (t2 :> 2) @@ (t3 :> 3)

allVars == <<duplicateVars, vars, sysTimerVars, simpleTimerVars, softwareSerialVars, jsonVars,
             part>>

\* What rests begins in one state.
Rests ==
  /\ part # "duplicates" => \A e \in Entries : table[e].src = s1
  /\ part # "buffer" => item = p1 /\ taken = p1 /\ \A i \in Indices : slots[i] = p1
  /\ part # "simpleTimer" => orderly
  /\ part # "json" => document = Array(<<Null, Tricky>>)

MCInit ==
  /\ part \in {"duplicates", "buffer", "sysTimer", "simpleTimer", "serial", "json"}
  /\ DuplicateInit /\ Init /\ SysTimerInit /\ SimpleTimerInit /\ SoftwareSerialInit
  /\ JsonInit
  /\ Rests

MCNext ==
  /\ UNCHANGED part
  /\ \/ part = "duplicates" /\ DuplicateNext
     \/ part # "duplicates" /\ UNCHANGED duplicateVars
  /\ \/ part = "buffer" /\ Next
     \/ part # "buffer" /\ UNCHANGED vars
  /\ \/ part = "sysTimer" /\ SysTimerNext
     \/ part # "sysTimer" /\ UNCHANGED sysTimerVars
  /\ \/ part = "simpleTimer" /\ SimpleTimerNext
     \/ part # "simpleTimer" /\ UNCHANGED simpleTimerVars
  /\ \/ part = "serial" /\ SoftwareSerialNext
     \/ part # "serial" /\ UNCHANGED softwareSerialVars
  /\ \/ part = "json" /\ JsonNext
     \/ part # "json" /\ UNCHANGED jsonVars

MCSpec == MCInit /\ [][MCNext]_allVars

=============================================================================
