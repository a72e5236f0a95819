---------------------------- MODULE NwkSecurity ----------------------------
(***************************************************************************)
(* What nwkSecurity.c does to the payload of a frame.  NwkTx has when it   *)
(* does it; here are the blocks, the vector that chains them and the       *)
(* integrity code, which one node computes for the frames it sends and     *)
(* those it receives with one set of static variables.  The key may change *)
(* between two passes of the task handler.                                 *)
(*                                                                         *)
(* The cipher is a function nobody knows: a word of its output is a term   *)
(* of the key, the input and its place.  Exclusive or of words is the      *)
(* symmetric difference of sets of terms, so that what cancels cancels.    *)
(* A payload is a sequence of words; a part of a word behaves like one.  A *)
(* secured frame that is received carries at least its integrity code.     *)
(***************************************************************************)
EXTENDS Integers, Sequences

CONSTANTS
  Sizes,   \* words of a payload
  MaxKeys  \* bound: the keys the sketch sets, one after the other

ASSUME NwkSecurityAssumption == Sizes \subseteq Nat /\ MaxKeys \in Nat

VARIABLES
  key,       \* nwkIb.key
  pool,      \* the frames of the pool, in its order
  secFrames, \* nwkSecurityActiveFrames
  secFrame,  \* nwkSecurityActiveFrame, 0 for NULL
  secSize, secOffset, secEncrypts, secVector

nwkSecurityVars ==
  <<key, pool, secFrames, secFrame, secSize, secOffset, secEncrypts, secVector>>

BLOCK == 4  \* words: NWK_SECURITY_BLOCK_SIZE
Words == 1..BLOCK
Pool == 1..2

Smaller(x, y) == IF x < y THEN x ELSE y
Xor(x, y) == (x \ y) \cup (y \ x)

\* The payload a sketch gives to a frame, and what the header makes of the
\* vector.
Plain(f, size) == [w \in 1..size |-> {<<"text", f, w>>}]
HeaderVector(f) == [w \in Words |-> {<<"head", f, w>>}]

\* Every word of the output depends on all of the input.
PHY_EncryptReq(text, k) == [w \in Words |-> {<<"key", k, text, w>>}]

\* The exclusive or of the four words.
Code(vector) == Xor(Xor(vector[1], vector[2]), Xor(vector[3], vector[4]))

-----------------------------------------------------------------------------
(* Cipher feedback as it is defined, word for word *)

\* The vector a block begins with: of the header, or the block before.
Before(words, f, block) ==
  IF block = 0 THEN HeaderVector(f) ELSE [w \in Words |-> words[BLOCK * (block - 1) + w]]

Block(n) == (n - 1) \div BLOCK
Place(n) == ((n - 1) % BLOCK) + 1

CipherWords(f, size, k) ==
  LET word[n \in 1..size] ==
        Xor(Plain(f, size)[n], PHY_EncryptReq(Before(word, f, Block(n)), k)[Place(n)])
  IN word

\* The last block as it leaves the vector; a part of a block leaves the rest
\* of the cipher's output there.
LastVector(f, size, k) ==
  LET words == CipherWords(f, size, k)
      last == IF size = 0 THEN 0 ELSE Block(size)
  IN  [w \in Words |-> IF BLOCK * last + w <= size THEN words[BLOCK * last + w]
                       ELSE PHY_EncryptReq(Before(words, f, last), k)[w]]

Cipher(f, size, k) == Append(CipherWords(f, size, k), Code(LastVector(f, size, k)))

-----------------------------------------------------------------------------
(* nwkSecurity.c *)

\* Mesh.setSecurityKey
NWK_SetSecurityKey ==
  /\ key < MaxKeys /\ key' = key + 1
  /\ UNCHANGED <<pool, secFrames, secFrame, secSize, secOffset, secEncrypts, secVector>>

nwkSecurityProcess(f) ==
  /\ pool[f].state = "new"
  /\ pool' = [pool EXCEPT ![f].state = "pending"]
  /\ secFrames' = secFrames + 1
  /\ UNCHANGED <<key, secFrame, secSize, secOffset, secEncrypts, secVector>>

\* Wrong on purpose: goes on with the vector of the frame before.
nwkSecurityStartStale(f) ==
  /\ secFrame' = f /\ UNCHANGED secVector
  /\ secEncrypts' = (pool[f].way = "out")
  /\ pool' = [pool EXCEPT ![f].state = "process",
                          ![f].size = IF secEncrypts' THEN @ ELSE @ - 1]
  /\ secSize' = pool'[f].size /\ secOffset' = 0
  /\ UNCHANGED <<key, secFrames>>

\* The code of a received frame does not belong to its payload any more.
nwkSecurityStart(f) ==
  /\ secFrame' = f /\ secVector' = HeaderVector(f)
  /\ secEncrypts' = (pool[f].way = "out")
  /\ pool' = [pool EXCEPT ![f].state = "process",
                          ![f].size = IF secEncrypts' THEN @ ELSE @ - 1]
  /\ secSize' = pool'[f].size /\ secOffset' = 0
  /\ UNCHANGED <<key, secFrames>>

\* One block: the vector becomes the cipher's output and then, word by word,
\* what was on the air, whichever way the frame goes.
SYS_EncryptConf(vector) ==
  LET block == Smaller(secSize, BLOCK)
      frame == pool[secFrame]
      Turned(w) == Xor(frame.payload[secOffset + w], vector[w])
      text == [n \in DOMAIN frame.payload |->
                 IF n - secOffset \in 1..block THEN Turned(n - secOffset) ELSE frame.payload[n]]
  IN  /\ secVector' = [w \in Words |->
           IF w > block THEN vector[w]
           ELSE IF secEncrypts THEN Turned(w) ELSE Xor(vector[w], Turned(w))]
      /\ secOffset' = secOffset + block /\ secSize' = secSize - block
      /\ pool' = [pool EXCEPT
           ![secFrame].payload = text, ![secFrame].keys = Append(@, key),
           ![secFrame].state = IF secSize' > 0 THEN "process" ELSE "confirm"]

\* With SYS_SECURITY_MODE 0 the transceiver encrypts.
SYS_EncryptReq ==
  /\ \E vector \in {PHY_EncryptReq(secVector, key)} : SYS_EncryptConf(vector)
  /\ UNCHANGED <<key, secFrames, secFrame, secEncrypts>>

\* nwkSecurityProcessMic: the code is written behind the payload, or
\* compared with what is there.
ProcessMic ==
  LET mic == Code(secVector)
      payload == pool[secFrame].payload
  IN pool' = [pool EXCEPT
       ![secFrame].state = "done",
       ![secFrame].payload = IF secEncrypts THEN Append(payload, mic) ELSE payload,
       ![secFrame].size = IF secEncrypts THEN @ + 1 ELSE @,
       ![secFrame].micStatus = secEncrypts \/ payload[secOffset + 1] = mic]

\* The frame is nwkTx's or nwkRx's again.
Confirm ==
  /\ ProcessMic
  /\ secFrame' = 0 /\ secFrames' = secFrames - 1
  /\ UNCHANGED <<key, secSize, secOffset, secEncrypts, secVector>>

\* The first frame of the pool that waits, one frame at a time.
nwkSecurityTaskHandler ==
  /\ secFrames > 0
  /\ \/ secFrame # 0 /\ pool[secFrame].state = "confirm" /\ Confirm
     \/ secFrame # 0 /\ pool[secFrame].state = "process" /\ SYS_EncryptReq
     \/ /\ secFrame = 0
        /\ \E f \in Pool : /\ pool[f].state = "pending"
                           /\ \A g \in Pool : pool[g].state = "pending" => f <= g
                           /\ nwkSecurityStart(f)

-----------------------------------------------------------------------------

\* A frame to be sent, or one received from a node that has the first key.
NewFrame(f, way, size) ==
  [way |-> way, state |-> "new", micStatus |-> FALSE, keys |-> <<>>, plain |-> size,
   size |-> IF way = "out" THEN size ELSE size + 1,
   payload |-> IF way = "out" THEN Plain(f, size) ELSE Cipher(f, size, 1)]

\* nwkSecurityInit
nwkSecurityInit ==
  /\ key = 1
  /\ secFrames = 0 /\ secFrame = 0
  /\ secSize = 0 /\ secOffset = 0 /\ secEncrypts = FALSE
  /\ secVector = [w \in Words |-> {}]

\* Every pair of frames
NwkSecurityInit ==
  /\ nwkSecurityInit
  /\ \E ways \in [Pool -> {"out", "in"}], sizes \in [Pool -> Sizes] :
       pool = [f \in Pool |-> NewFrame(f, ways[f], sizes[f])]

NwkSecurityNext ==
  \/ NWK_SetSecurityKey
  \/ \E f \in Pool : nwkSecurityProcess(f)
  \/ nwkSecurityTaskHandler

NwkSecuritySpec == NwkSecurityInit /\ [][NwkSecurityNext]_nwkSecurityVars

-----------------------------------------------------------------------------

Under(f, k) == \A n \in DOMAIN pool[f].keys : pool[f].keys[n] = k

\* A frame encrypted under one key goes out as cipher feedback defines it.
EncryptsAsDefined ==
  \A f \in Pool, k \in 1..MaxKeys :
    pool[f].state = "done" /\ pool[f].way = "out" /\ Under(f, k)
      => pool[f].payload = Cipher(f, pool[f].plain, k)

\* One received is what was sent, and accepted, if this node had the sender's
\* key all along.
DecryptsWhatWasSent ==
  \A f \in Pool :
    pool[f].state = "done" /\ pool[f].way = "in" /\ Under(f, 1)
      => /\ pool[f].micStatus
         /\ SubSeq(pool[f].payload, 1, pool[f].size) = Plain(f, pool[f].plain)

\* What is encrypted and decrypted is right, whichever frames are processed
\* one after the other with the same variables.
SecuredIsExact == EncryptsAsDefined /\ DecryptsWhatWasSent

=============================================================================
