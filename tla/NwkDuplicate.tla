---------------------------- MODULE NwkDuplicate ----------------------------
(***************************************************************************)
(* Duplicate rejection of nwkRx.c.  Retransmissions and rebroadcasts bring *)
(* a node several copies of one frame; a table remembers, for the sources  *)
(* heard lately, the latest sequence number and which of those just before *)
(* it have been seen.  Nothing in a frame but its 8-bit sequence number    *)
(* tells a copy from a new frame, so the window, the wrap of the number    *)
(* and the time an entry lives have to fit together.                       *)
(*                                                                         *)
(* The module adds what is needed to say so: how many frames each source   *)
(* sent, how long ago, and which of them nwkRxRejectDuplicate let through. *)
(* Frame n of a source carries n % SeqSpace.  Time is counted in periods   *)
(* of nwkRxDuplicateRejectionTimer.  The route that a duplicate removes    *)
(* is modelled in NwkRx.                                                   *)
(***************************************************************************)
EXTENDS Integers, Sequences, FiniteSets, FiniteSetsExt

CONSTANTS
  Sources,
  TableSize,  \* NWK_DUPLICATE_REJECTION_TABLE_SIZE
  SeqSpace,   \* 256 values of nwkSeq
  Window,     \* 8 bits of mask
  Ttl,        \* DUPLICATE_REJECTION_TTL
  MaxAge,     \* periods after which no copy of a frame is under way
  PerPeriod,  \* frames a source sends in a period
  MaxFrames   \* bound: MaxFrames[s] frames are sent by s at all

\* What the table is asked to cope with: copies die before the entry that
\* knows them, and a source does not send so fast that a number comes back
\* while its predecessor, or one the window takes for it, is remembered.
ASSUME DuplicateAssumption ==
  /\ TableSize \in Nat \ {0} /\ Window \in Nat \ {0} /\ SeqSpace \in Nat /\ Window <= SeqSpace
  /\ Ttl \in Nat /\ MaxAge \in Nat /\ MaxAge < Ttl
  /\ PerPeriod \in Nat /\ MaxFrames \in [Sources -> Nat]
  /\ PerPeriod * (MaxAge + Ttl) <= SeqSpace - Window + 1

VARIABLES
  table,    \* nwkRxDuplicateRejectionTable
  timer,    \* nwkRxDuplicateRejectionTimer is started
  ages,     \* ages[s][n]: periods since s sent its frame n
  accepted  \* accepted[s]: the frames of s let through, among the last Window ones

duplicateVars == <<table, timer, ages, accepted>>

Entries == 1..TableSize
EntryType == [src: Sources, seq: 0..(SeqSpace - 1),
              mask: SUBSET (0..(Window - 1)), ttl: 0..Ttl]

SeqWrapped(n) == n % SeqSpace

\* A copy of frame n may still arrive: it is young, and less than a window of
\* later frames has been sent.
UnderWay(s, n) ==
  /\ n \in DOMAIN ages[s]
  /\ ages[s][n] <= MaxAge
  /\ Len(ages[s]) - n < Window

-----------------------------------------------------------------------------
(* nwkRxRejectDuplicate *)

LiveEntries(s) == {e \in Entries : table[e].ttl > 0 /\ table[e].src = s}
FreeEntries == {e \in Entries : table[e].ttl = 0}

\* How far the number lies behind the latest one, as an unsigned byte.
Diff(e, seq) == (table[e].seq - seq) % SeqSpace

Rejects(s, seq) ==
  \/ \E e \in LiveEntries(s) : Diff(e, seq) \in table[e].mask
  \/ LiveEntries(s) = {} /\ FreeEntries = {}

\* Wrong on purpose: moves the window and keeps the mask where it was.
MarkUnshifted(e, seq) ==
  LET diff == Diff(e, seq)
  IN  IF diff < Window
        THEN [table[e] EXCEPT !.mask = @ \cup {diff}]
        ELSE [table[e] EXCEPT !.seq = seq, !.ttl = Ttl, !.mask = @ \cup {0}]

\* Inside the window a bit is set and the entry grows no younger.  Any other
\* number is taken for a later one, and the window moves up to it: the byte
\* mask loses the bits shifted past it, all of them when shift is large.
Mark(e, seq) ==
  LET diff == Diff(e, seq)
      shift == SeqSpace - diff
  IN  IF diff < Window
        THEN [table[e] EXCEPT !.mask = @ \cup {diff}]
        ELSE [src |-> table[e].src, seq |-> seq, ttl |-> Ttl,
              mask |-> {0} \cup ({b + shift : b \in table[e].mask} \cap 0..(Window - 1))]

NewEntry(s, seq) == [src |-> s, seq |-> seq, mask |-> {0}, ttl |-> Ttl]

\* A copy of a known frame, or a frame that finds the table full.
Reject(s, n) ==
  /\ UnderWay(s, n) /\ Rejects(s, SeqWrapped(n))
  /\ UNCHANGED duplicateVars

AcceptKnown(s, n) ==
  /\ UnderWay(s, n) /\ ~Rejects(s, SeqWrapped(n))
  /\ LiveEntries(s) # {}
  /\ LET e == Min(LiveEntries(s)) IN table' = [table EXCEPT ![e] = Mark(e, SeqWrapped(n))]
  /\ accepted' = [accepted EXCEPT ![s] = @ \cup {n}]
  /\ UNCHANGED <<timer, ages>>

\* The last free entry is taken.
AcceptNew(s, n) ==
  /\ UnderWay(s, n) /\ ~Rejects(s, SeqWrapped(n))
  /\ LiveEntries(s) = {}
  /\ table' = [table EXCEPT ![Max(FreeEntries)] = NewEntry(s, SeqWrapped(n))]
  /\ timer' = TRUE
  /\ accepted' = [accepted EXCEPT ![s] = @ \cup {n}]
  /\ UNCHANGED ages

-----------------------------------------------------------------------------
(* Time and the sources *)

Aged(entry) == [entry EXCEPT !.ttl = IF @ > 0 THEN @ - 1 ELSE 0]

\* A period goes by.  nwkRxDuplicateRejectionTimerHandler runs if its timer
\* was started, and starts it again as long as an entry lived.
Period ==
  /\ ages' = [s \in Sources |-> [n \in DOMAIN ages[s] |->
                IF ages[s][n] > MaxAge THEN ages[s][n] ELSE ages[s][n] + 1]]
  /\ IF timer
       THEN /\ table' = [e \in Entries |-> Aged(table[e])]
            /\ timer' = (\E e \in Entries : table[e].ttl > 0)
       ELSE UNCHANGED <<table, timer>>
  /\ UNCHANGED accepted

\* nwkDataReqSendFrame of another node.
Send(s) ==
  /\ Len(ages[s]) < MaxFrames[s]
  /\ Cardinality({n \in DOMAIN ages[s] : ages[s][n] = 0}) < PerPeriod
  /\ ages' = [ages EXCEPT ![s] = Append(@, 0)]
  /\ accepted' = [accepted EXCEPT ![s] = {n \in @ : Len(ages'[s]) - n < Window}]
  /\ UNCHANGED <<table, timer>>

\* nwkRxInit
DuplicateInit ==
  /\ table \in [Entries -> {t \in EntryType : t.ttl = 0 /\ t.seq = 0 /\ t.mask = {}}]
  /\ timer = FALSE
  /\ ages = [s \in Sources |-> <<>>]
  /\ accepted = [s \in Sources |-> {}]

DuplicateNext ==
  \/ \E s \in Sources : Send(s)
  \/ \E s \in Sources : \E n \in DOMAIN ages[s] :
       Reject(s, n) \/ AcceptKnown(s, n) \/ AcceptNew(s, n)
  \/ Period

DuplicateSpec == DuplicateInit /\ [][DuplicateNext]_duplicateVars

-----------------------------------------------------------------------------
(* Invariants *)

\* A source has one living entry, so that no frame is judged by the wrong one.
OneEntry == \A s \in Sources : Cardinality(LiveEntries(s)) <= 1

\* While an entry lives the timer runs: the table cannot stay full of sources
\* that are gone.
LiveHaveTimer == (\E e \in Entries : table[e].ttl > 0) => timer

\* No copy of a frame that was let through would be let through again.
NoTwice ==
  \A s \in Sources : \A n \in accepted[s] :
    UnderWay(s, n) => Rejects(s, SeqWrapped(n))

\* A frame never let through would be let through, however many of those
\* before it were lost, and although others came before it or its number was
\* used already; only a table full of other sources keeps it out.
FreshAccepted ==
  \A s \in Sources : \A n \in DOMAIN ages[s] :
    /\ UnderWay(s, n) /\ n \notin accepted[s]
    /\ Rejects(s, SeqWrapped(n))
    => LiveEntries(s) = {} /\ FreeEntries = {}

\* The table tells copies from new frames, a source has one entry in it, and
\* no entry stays for ever.
TellsCopies == NoTwice /\ FreshAccepted /\ OneEntry /\ LiveHaveTimer

=============================================================================
