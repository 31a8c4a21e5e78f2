--------------------------- MODULE CanFramesProofs ---------------------------
(***************************************************************************)
(* The CAN server keeps frame boundaries: for every set of connections,    *)
(* size of frames, choice of refused frames and split of the streams into  *)
(* reads, FramesKept and NoneHeldBack hold.                                *)
(*                                                                         *)
(* StreamInv is inductive relative to SessionInv (CanServerProofs).  The   *)
(* arithmetic of frames in a stream comes first, then what CutFrames does  *)
(* to a buffer and a frame to the bus, then one lemma per kind of step.    *)
(***************************************************************************)
EXTENDS CanServerProofs

USE ClientsAssumption, FrameSizeAssumption
    DEF owner, network, session, Stages, Conns, Handlers, RxSteps, TxSteps

----------------------------------------------------------------------------
(* Frames of a stream                                                      *)

\* A number of whole frames and less than one more.
LEMMA WholeFrames ==
  ASSUME NEW n \in Nat, NEW r \in Nat, r < FrameSize
  PROVE  (n * FrameSize + r) \div FrameSize = n
<1>1. FrameSize \in Nat /\ FrameSize > 0
  OBVIOUS
<1> DEFINE q == (n * FrameSize + r) \div FrameSize
           m == (n * FrameSize + r) % FrameSize
<1>2. q \in Int /\ m \in 0 .. FrameSize - 1 /\ n * FrameSize + r = q * FrameSize + m
  BY <1>1
<1>3. (n - q) * FrameSize = m - r
  BY <1>1, <1>2
<1>4. ~(n - q >= 1)
  <2> SUFFICES ASSUME n - q >= 1 PROVE FALSE
    OBVIOUS
  <2>1. (n - q) * FrameSize >= FrameSize
    BY <1>1, <1>2
  <2> QED BY <1>1, <1>2, <1>3, <2>1
<1>5. ~(n - q <= -1)
  <2> SUFFICES ASSUME n - q <= -1 PROVE FALSE
    OBVIOUS
  <2>1. (n - q) * FrameSize <= -FrameSize
    BY <1>1, <1>2
  <2> QED BY <1>1, <1>2, <1>3, <2>1
<1> QED BY <1>2, <1>4, <1>5

\* A number of bytes is some whole frames and less than one more.
LEMMA Division ==
  ASSUME NEW l \in Nat
  PROVE  /\ l \div FrameSize \in Nat
         /\ l - (l \div FrameSize) * FrameSize < FrameSize
<1>1. FrameSize \in Nat /\ FrameSize > 0
  OBVIOUS
<1>2. l \div FrameSize \in Int /\ l % FrameSize \in 0 .. FrameSize - 1
  BY <1>1
<1>3. l = (l \div FrameSize) * FrameSize + (l % FrameSize)
  BY <1>1
<1>4. ~(l \div FrameSize <= -1)
  <2> SUFFICES ASSUME l \div FrameSize <= -1 PROVE FALSE
    OBVIOUS
  <2>1. (l \div FrameSize) * FrameSize <= -FrameSize
    BY <1>1, <1>2
  <2> QED BY <1>1, <1>2, <1>3, <2>1
<1> QED BY <1>1, <1>2, <1>3, <1>4

\* Different frames of the clients are different sequences of bytes.
LEMMA FrameOfInjective ==
  ASSUME NEW c, NEW d, NEW k \in Nat, NEW l \in Nat, FrameOf(c, k) = FrameOf(d, l)
  PROVE  c = d /\ k = l
<1>1. FrameOf(c, k)[1] = <<c, (k - 1) * FrameSize + 1>>
  BY DEF FrameOf
<1>2. FrameOf(d, l)[1] = <<d, (l - 1) * FrameSize + 1>>
  BY DEF FrameOf
<1>3. c = d /\ (k - 1) * FrameSize + 1 = (l - 1) * FrameSize + 1
  BY <1>1, <1>2
<1>4. (k - l) * FrameSize = 0
  BY <1>3
<1>5. k - l = 0
  BY <1>4
<1> QED BY <1>3, <1>5

\* What is left behind j frames of a buffer, and the j-th of them.
LEMMA CutPieces ==
  ASSUME NEW b \in Seq(Bytes), NEW j \in 0 .. Len(b) \div FrameSize
  PROVE  /\ j * FrameSize \in 0 .. Len(b)
         /\ Len(After(b, j)) = Len(b) - j * FrameSize
         /\ \A i \in 1 .. Len(b) - j * FrameSize : After(b, j)[i] = b[j * FrameSize + i]
         /\ j > 0 => /\ FrameAt(b, j) = [i \in 1 .. FrameSize |-> b[(j - 1) * FrameSize + i]]
                     /\ \A i \in 1 .. FrameSize : (j - 1) * FrameSize + i \in 1 .. Len(b)
<1>1. j * FrameSize \in 0 .. Len(b)
  OBVIOUS
<1>2. Len(b) \in Nat
  OBVIOUS
<1>3. /\ Len(After(b, j)) = Len(b) - j * FrameSize
      /\ \A i \in 1 .. Len(b) - j * FrameSize : After(b, j)[i] = b[j * FrameSize + i]
  <2> DEFINE m == j * FrameSize
  <2>1. m \in 0 .. Len(b)
    BY <1>1
  <2> HIDE DEF m
  <2>2. /\ Len(SubSeq(b, m + 1, Len(b))) = Len(b) - m
        /\ \A i \in 1 .. Len(b) - m : SubSeq(b, m + 1, Len(b))[i] = b[m + i]
    BY <1>2, <2>1
  <2> QED BY <2>2 DEF After, m
<1>4. ASSUME j > 0
      PROVE  /\ FrameAt(b, j) = [i \in 1 .. FrameSize |-> b[(j - 1) * FrameSize + i]]
             /\ \A i \in 1 .. FrameSize : (j - 1) * FrameSize + i \in 1 .. Len(b)
  <2> DEFINE m == (j - 1) * FrameSize
  <2>1. j * FrameSize = m + FrameSize /\ m \in 0 .. Len(b) /\ m + FrameSize <= Len(b)
    BY <1>1, <1>4
  <2> HIDE DEF m
  <2>4. \A i \in 1 .. FrameSize : m + i \in 1 .. Len(b)
    BY <1>2, <2>1
  <2>2. SubSeq(b, m + 1, m + FrameSize) = [i \in 1 .. FrameSize |-> b[m + i]]
    BY <1>1, <1>2, <2>1
  <2>3. SubSeq(b, m + 1, j * FrameSize) = [i \in 1 .. FrameSize |-> b[m + i]]
    BY <2>1, <2>2
  <2> QED BY <2>3, <2>4 DEF FrameAt, m
<1> QED BY <1>1, <1>3, <1>4

\* The same of a buffer that holds what follows the first n frames of c.
LEMMA CutBuffer ==
  ASSUME NEW c, NEW b \in Seq(Bytes), NEW n \in Nat, NEW j \in 0 .. Len(b) \div FrameSize,
         \A i \in 1 .. Len(b) : b[i] = <<c, n * FrameSize + i>>
  PROVE  /\ n * FrameSize + Len(b) = (n + j) * FrameSize + Len(After(b, j))
         /\ \A i \in 1 .. Len(After(b, j)) : After(b, j)[i] = <<c, (n + j) * FrameSize + i>>
         /\ j > 0 => FrameAt(b, j) = FrameOf(c, n + j)
<1> DEFINE cut  == j * FrameSize
           past == n * FrameSize
           last == (j - 1) * FrameSize
<1>1. /\ cut \in 0 .. Len(b)
      /\ Len(After(b, j)) = Len(b) - cut
      /\ \A i \in 1 .. Len(b) - cut : After(b, j)[i] = b[cut + i]
      /\ j > 0 => /\ FrameAt(b, j) = [i \in 1 .. FrameSize |-> b[last + i]]
                  /\ \A i \in 1 .. FrameSize : last + i \in 1 .. Len(b)
  BY CutPieces
<1>2. Len(b) \in Nat /\ past \in Nat /\ FrameSize \in Nat
  OBVIOUS
<1>3. /\ (n + j) * FrameSize = past + cut
      /\ (n + j - 1) * FrameSize = past + last
      /\ last + FrameSize = cut
      /\ last \in Int
      /\ j > 0 => last \in Nat
  OBVIOUS
<1>7. \A i \in 1 .. Len(b) : b[i] = <<c, past + i>>
  OBVIOUS
<1> HIDE DEF cut, past, last
<1>4. past + Len(b) = past + cut + Len(After(b, j))
  BY <1>1, <1>2
<1>5. ASSUME NEW i \in 1 .. Len(After(b, j))
      PROVE  After(b, j)[i] = <<c, past + cut + i>>
  <2>1. cut + i \in 1 .. Len(b)
    BY <1>1, <1>2
  <2>2. After(b, j)[i] = <<c, past + (cut + i)>>
    BY <1>1, <1>7, <2>1
  <2>3. past + (cut + i) = past + cut + i
    BY <1>1, <1>2
  <2> QED BY <2>2, <2>3
<1>6. ASSUME j > 0 PROVE FrameAt(b, j) = FrameOf(c, n + j)
  <2>1. ASSUME NEW i \in 1 .. FrameSize
        PROVE  b[last + i] = <<c, past + last + i>>
    <3>1. last + i \in 1 .. Len(b)
      BY <1>1, <1>6
    <3>2. b[last + i] = <<c, past + (last + i)>>
      BY <1>7, <3>1
    <3>3. past + (last + i) = past + last + i
      BY <1>2, <1>3
    <3> QED BY <3>2, <3>3
  <2>2. FrameOf(c, n + j) = [i \in 1 .. FrameSize |-> <<c, past + last + i>>]
    BY <1>3 DEF FrameOf
  <2> QED BY <1>1, <1>6, <2>1, <2>2
<1> QED BY <1>3, <1>4, <1>5, <1>6 DEF past

\* How many frames have been cut is known from what is left.
LEMMA CutIs ==
  ASSUME NEW n \in Nat, NEW r \in Nat
  PROVE  (n * FrameSize + r - r) \div FrameSize = n
<1>1. n * FrameSize \in Nat /\ n * FrameSize + r - r = n * FrameSize + 0
  OBVIOUS
<1> QED BY <1>1, WholeFrames

\* The other sessions are left alone.
LEMMA CutFramesElsewhere ==
  ASSUME CanTypeOK, TypeOK, NEW c \in Clients, NEW b, CutFrames(c, b), NEW d \in Clients \ {c}
  PROVE  buf'[d] = buf[d] /\ msg'[d] = msg[d] /\ tx'[d] = tx[d]
<1>1. tx'[d] = tx[d]
  BY CutFramesShape DEF TypeOK
<1>2. \E v : buf' = [buf EXCEPT ![c] = v]
  BY DEF CutFrames
<1>3. msg' = msg \/ \E v : msg' = [msg EXCEPT ![c] = v]
  BY DEF CutFrames
<1> QED BY <1>1, <1>2, <1>3 DEF CanTypeOK

\* What the inner loop makes of a buffer that follows the first n frames of c: it cuts
\* m - n frames, of which at most the last is to be sent.
LEMMA CutFramesResult ==
  ASSUME CanTypeOK, serial, NEW c \in Clients, NEW b \in Seq(Bytes), NEW n \in Nat,
         \A i \in 1 .. Len(b) : b[i] = <<c, n * FrameSize + i>>,
         CutFrames(c, b)
  PROVE  \E m \in Nat :
           /\ m >= n
           /\ n * FrameSize + Len(b) = m * FrameSize + Len(buf'[c])
           /\ \A i \in 1 .. Len(buf'[c]) : buf'[c][i] = <<c, m * FrameSize + i>>
           /\ \/ /\ tx'[c] = "write"
                 /\ m > n /\ m \in ToSend(c, m)
                 /\ msg'[c] = FrameOf(c, m)
                 /\ \A k \in ToSend(c, m) : k <= n \/ k = m
              \/ /\ tx'[c] \in {"read", "done"}
                 /\ Len(buf'[c]) < FrameSize
                 /\ \A k \in ToSend(c, m) : k <= n
<1> DEFINE q    == Len(b) \div FrameSize
           good == {j \in Complete(b) : Decodes(FrameAt(b, j))}
           j    == CHOOSE i \in good : \A k \in good : i <= k
<1>0. Len(b) \in Nat /\ q \in Nat /\ Len(b) - q * FrameSize < FrameSize
  <2>1. Len(b) \in Nat
    OBVIOUS
  <2> QED BY <2>1, Division
<1>a. good = {k \in 1 .. q : Decodes(FrameAt(b, k))}
  BY DEF Complete
<1>b. ASSUME NEW k \in 0 .. q
      PROVE  /\ n * FrameSize + Len(b) = (n + k) * FrameSize + Len(After(b, k))
             /\ \A i \in 1 .. Len(After(b, k)) : After(b, k)[i] = <<c, (n + k) * FrameSize + i>>
             /\ Len(After(b, k)) = Len(b) - k * FrameSize
             /\ k > 0 => FrameAt(b, k) = FrameOf(c, n + k)
  <2>1. k \in 0 .. Len(b) \div FrameSize
    OBVIOUS
  <2>2. \A i \in 1 .. Len(b) : b[i] = <<c, n * FrameSize + i>>
    OBVIOUS
  <2> HIDE DEF q, good
  <2>3. /\ n * FrameSize + Len(b) = (n + k) * FrameSize + Len(After(b, k))
        /\ \A i \in 1 .. Len(After(b, k)) : After(b, k)[i] = <<c, (n + k) * FrameSize + i>>
        /\ k > 0 => FrameAt(b, k) = FrameOf(c, n + k)
    BY <2>1, <2>2, CutBuffer, Zenon
  <2>4. Len(After(b, k)) = Len(b) - k * FrameSize
    BY <2>1, CutPieces, Zenon
  <2> QED BY <2>3, <2>4
<1> HIDE DEF q, good
<1>1. ASSUME NEW k \in 1 .. q PROVE FrameAt(b, k) = FrameOf(c, n + k)
  BY <1>0, <1>b
<1>2. CASE good = {}
  <2>1. /\ n * FrameSize + Len(b) = (n + q) * FrameSize + Len(After(b, q))
        /\ \A i \in 1 .. Len(After(b, q)) : After(b, q)[i] = <<c, (n + q) * FrameSize + i>>
    BY <1>0, <1>b
  <2>2. Len(After(b, q)) < FrameSize
    BY <1>0, <1>b
  <2>3. \A k \in ToSend(c, n + q) : k <= n
    <3> SUFFICES ASSUME NEW k \in 1 .. n + q, k > n PROVE ~Decodes(FrameOf(c, k))
      BY DEF ToSend
    <3>1. k - n \in 1 .. q /\ n + (k - n) = k
      BY <1>0
    <3>2. FrameAt(b, k - n) = FrameOf(c, k)
      BY <1>1, <3>1
    <3> QED BY <1>a, <1>2, <3>1, <3>2
  <2>4. buf'[c] = After(b, q) /\ tx'[c] \in {"read", "done"}
    BY <1>2 DEF CutFrames, ReadClient, TxEnds, CanTypeOK, TypeOK, q, good
  <2>5. n + q \in Nat /\ n + q >= n
    BY <1>0
  <2> QED BY <2>1, <2>2, <2>3, <2>4, <2>5
<1>3. CASE good # {}
  <2>0. good \in SUBSET Nat
    BY <1>0, <1>a
  <2>1. j \in good /\ \A k \in good : j <= k
    BY <1>3, <2>0, LeastElement
  <2>2. j \in 1 .. q /\ j \in 0 .. q /\ j > 0
    BY <1>0, <1>a, <2>1
  <2>3. buf'[c] = After(b, j) /\ tx'[c] = "write" /\ msg'[c] = FrameAt(b, j)
    BY <1>3 DEF CutFrames, CanTypeOK, TypeOK, good
  <2> HIDE DEF j
  <2>4. /\ n * FrameSize + Len(b) = (n + j) * FrameSize + Len(After(b, j))
        /\ \A i \in 1 .. Len(After(b, j)) : After(b, j)[i] = <<c, (n + j) * FrameSize + i>>
        /\ FrameAt(b, j) = FrameOf(c, n + j)
    BY <1>b, <2>2
  <2>5. n + j \in ToSend(c, n + j)
    BY <1>0, <1>a, <2>1, <2>2, <2>4 DEF ToSend
  <2>6. \A k \in ToSend(c, n + j) : k <= n \/ k = n + j
    <3> SUFFICES ASSUME NEW k \in 1 .. n + j, k > n, k # n + j PROVE ~Decodes(FrameOf(c, k))
      BY DEF ToSend
    <3>1. k - n \in 1 .. q /\ k - n < j /\ n + (k - n) = k
      BY <1>0, <2>2
    <3>2. FrameAt(b, k - n) = FrameOf(c, k)
      BY <1>1, <3>1
    <3>3. k - n \notin good
      BY <2>1, <2>2, <3>1
    <3> QED BY <1>a, <3>1, <3>2, <3>3
  <2>7. n + j \in Nat /\ n + j > n
    BY <2>2
  <2> USE <2>7
  <2> WITNESS n + j \in Nat
  <2> QED BY <2>3, <2>4, <2>5, <2>6, <2>7
<1> QED BY <1>2, <1>3

----------------------------------------------------------------------------
(* Steps that put nothing on the bus                                       *)

\* A session whose buffer is left alone and whose task ends or begins to read.
LEMMA ClientKept ==
  ASSUME CanTypeOK, NEW c \in Clients, Buffered(c), Waited(c), InHand(c), SentSoFar(c),
         got'[c] = got[c], buf'[c] = buf[c], msg'[c] = msg[c], onBus' = onBus,
         conn[c] = "lost" => conn'[c] = "lost", unplugged => unplugged',
         c \in orphans' => tx'[c] = "done",
         Pending(c)' => Pending(c),
         Pending(c) => Pending(c)' \/ unplugged' \/ conn'[c] = "lost",
         \/ tx'[c] = tx[c]
         \/ tx[c] \in {"none", "created"} /\ tx'[c] \in {"created", "read", "done"}
         \/ tx[c] = "read" /\ tx'[c] = "done"
         \/ tx'[c] = "done" /\ (conn'[c] = "lost" \/ unplugged')
  PROVE  (Buffered(c) /\ Waited(c) /\ InHand(c) /\ SentSoFar(c))'
<1>1. Cut(c)' = Cut(c)
  BY DEF Cut
<1>2. Buffered(c)'
  BY <1>1 DEF Buffered
<1>3. ASSUME tx[c] \in {"none", "created"} PROVE Len(buf[c]) = 0 /\ Cut(c) = 0
  <2>1. got[c] = 0 /\ Cut(c) \in Nat /\ Len(buf[c]) \in Nat
    BY <1>3 DEF Waited, Buffered, CanTypeOK
  <2>2. 0 = Cut(c) * FrameSize + Len(buf[c]) /\ Cut(c) * FrameSize \in Nat
    BY <2>1 DEF Buffered
  <2>3. Cut(c) * FrameSize = 0
    BY <2>1, <2>2
  <2> QED BY <2>1, <2>2, <2>3
<1>4. Waited(c)'
  BY <1>3 DEF Waited
<1>5. InHand(c)'
  BY <1>1 DEF InHand
<1>6. SentSoFar(c)'
  <2> SUFFICES ASSUME NEW k \in ToSend(c, Cut(c)),
                      \/ k < Cut(c)
                      \/ tx'[c] \in {"read", "wrote"}
                      \/ ~Pending(c)' /\ ~unplugged' /\ conn'[c] # "lost"
               PROVE  Sent(c, k, Len(onBus))
    BY <1>1 DEF SentSoFar, Sent
  <2>1. CASE tx[c] \in {"none", "created"}
    BY <1>3, <2>1 DEF ToSend
  <2>2. CASE tx[c] \notin {"none", "created"}
    BY <2>2 DEF SentSoFar
  <2> QED BY <2>1, <2>2
<1> QED BY <1>2, <1>4, <1>5, <1>6

\* The bus is left alone and no frame on it comes back into a thread's hands.
LEMMA BusKept ==
  ASSUME BusInv, onBus' = onBus,
         \A c \in Clients :
           /\ Cut(c) \in Nat /\ Cut(c)' \in Nat
           /\ Cut(c)' > Cut(c) \/ (Cut(c)' = Cut(c) /\ (Pending(c)' => Pending(c)))
  PROVE  BusInv'
<1> SUFFICES ASSUME NEW i \in DOMAIN onBus
             PROVE  \E c \in Clients : \E k \in ToSend(c, Cut(c)') :
                      /\ onBus[i] = FrameOf(c, k)
                      /\ k = Cut(c)' => ~Pending(c)'
                      /\ \A l \in ToSend(c, k) : Sent(c, l, i - 1) <=> l < k
  BY DEF BusInv, Sent
<1>0. PICK c \in Clients :
        \E k \in ToSend(c, Cut(c)) :
          /\ onBus[i] = FrameOf(c, k)
          /\ k = Cut(c) => ~Pending(c)
          /\ \A l \in ToSend(c, k) : Sent(c, l, i - 1) <=> l < k
  BY DEF BusInv
<1>1. PICK k \in ToSend(c, Cut(c)) :
        /\ onBus[i] = FrameOf(c, k)
        /\ k = Cut(c) => ~Pending(c)
        /\ \A l \in ToSend(c, k) : Sent(c, l, i - 1) <=> l < k
  BY <1>0
<1>2. k \in ToSend(c, Cut(c)') /\ (k = Cut(c)' => ~Pending(c)')
  BY <1>1 DEF ToSend
<1> QED BY <1>1, <1>2

\* Before stop() there are session tasks only while the server runs.
LEMMA TasksMeanRunning ==
  ASSUME SessionInv, BeforeStop, NEW c \in Clients, handler[c] # "none" \/ tx[c] # "none"
  PROVE  stage = "running" /\ serial
<1>1. TypeOK /\ OwnerInv /\ TaskInv
  BY DEF SessionInv, Inv
<1>2. handler[c] # "none"
  BY <1>1 DEF TypeOK, TaskInv
<1>3. stage \notin {"new", "opening"}
  BY <1>1, <1>2 DEF OwnerInv, TaskInv
<1> QED BY <1>1, <1>3 DEF OwnerInv, BeforeStop

\* What the other tasks, the clients and the owner can do to a session task, its
\* connection and its thread.
Moves(c) ==
  /\ conn[c] = "lost" => conn'[c] = "lost"
  /\ unplugged => unplugged'
  /\ c \in orphans' => tx'[c] = "done"
  /\ Pending(c)' => Pending(c)
  /\ Pending(c) => Pending(c)' \/ unplugged' \/ conn'[c] = "lost"
  /\ \/ tx'[c] = tx[c]
     \/ tx[c] \in {"none", "created"} /\ tx'[c] \in {"created", "read", "done"}
     \/ tx[c] = "read" /\ tx'[c] = "done"
     \/ tx'[c] = "done" /\ (conn'[c] = "lost" \/ unplugged')

\* Nothing moves where nothing is changed.
LEMMA OthersMove ==
  ASSUME SessionInv, NEW c \in Clients, c \in orphans => tx[c] = "done",
         tx'[c] = tx[c], c \in orphans' <=> c \in orphans,
         conn[c] = "lost" => conn'[c] = "lost", unplugged => unplugged'
  PROVE  Moves(c)
  BY DEF Moves, Pending

LEMMA HandlerMoves ==
  ASSUME SessionInv, BeforeStop, NEW c \in Clients, NEW d \in Clients, HandleClient(d),
         c \in orphans => tx[c] = "done"
  PROVE  Moves(c)
<1>1. TypeOK /\ TaskInv /\ FailureInv
  BY DEF SessionInv, Inv
<1>2. CASE RejectSecondClient(d) \/ CloseSession(d) \/ HandlerReturns(d)
  <2>1. UNCHANGED <<tx, orphans, unplugged>>
    BY <1>2 DEF RejectSecondClient, CloseSession, HandlerReturns
  <2>2. conn[c] = "lost" => conn'[c] = "lost"
    <3>1. \/ conn' = conn
          \/ conn' = [conn EXCEPT
                        ![d] = IF conn[d] \in {"open", "eof"} THEN "closing" ELSE conn[d]]
      BY <1>2 DEF RejectSecondClient, CloseSession, HandlerReturns, CloseWriter
    <3>2. conn \in [Clients -> Conns]
      BY <1>1 DEF TypeOK
    <3> QED BY <3>1, <3>2
  <2> QED BY <2>1, <2>2, OthersMove
<1>3. CASE Serve(d)
  <2>1. /\ tx[d] = "none" /\ tx' = [tx EXCEPT ![d] = "created"]
        /\ UNCHANGED <<conn, orphans, unplugged>>
    BY <1>1, <1>3 DEF Serve, TaskInv
  <2>2. tx'[c] = IF c = d THEN "created" ELSE tx[c]
    BY <1>1, <2>1 DEF TypeOK
  <2> QED BY <2>1, <2>2 DEF Moves, Pending
<1>4. CASE SessionEnds(d)
  <2>1. /\ tx' = [tx EXCEPT ![d] = "done"]
        /\ orphans' = IF tx[d] = "write" THEN orphans \union {d} ELSE orphans
        /\ UNCHANGED <<conn, unplugged>>
        /\ handler[d] = "serving" /\ (rx[d] = "done" \/ tx[d] = "done")
    BY <1>4 DEF SessionEnds
  <2>2. CASE c # d
    <3>1. tx'[c] = tx[c] /\ (c \in orphans' <=> c \in orphans)
      BY <1>1, <2>1, <2>2 DEF TypeOK
    <3> QED BY <2>1, <3>1, OthersMove
  <2>3. CASE c = d
    <3>1. tx'[c] = "done" /\ tx[c] \in TxSteps \ {"none"}
      BY <1>1, <2>1, <2>3 DEF TypeOK, TaskInv
    <3>2. Pending(c)' <=> Pending(c)
      BY <2>1, <2>3, <3>1 DEF Pending
    <3>3. CASE tx[c] \in {"created", "read", "done"}
      BY <2>1, <3>1, <3>2, <3>3 DEF Moves
    <3>4. CASE tx[c] \in {"write", "wrote"}
      <4>1. rx[c] = "done" /\ stage = "running"
        BY <2>1, <2>3, <3>4, TasksMeanRunning
      <4>2. conn[c] = "lost" \/ unplugged
        BY <1>1, <2>1, <2>3, <4>1 DEF FailureInv
      <4> QED BY <2>1, <3>1, <3>2, <4>2 DEF Moves
    <3> QED BY <3>1, <3>3, <3>4
  <2> QED BY <2>2, <2>3
<1> QED BY <1>2, <1>3, <1>4 DEF HandleClient, Handler

LEMMA OtherTcpToCanMoves ==
  ASSUME SessionInv, BeforeStop, NEW c \in Clients, NEW d \in Clients, OtherTcpToCan(d),
         c \in orphans => tx[c] = "done", d \in orphans => tx[d] = "done"
  PROVE  Moves(c)
<1>1. TypeOK
  BY DEF SessionInv, Inv
<1>2. UNCHANGED <<conn, orphans, unplugged>>
  BY DEF OtherTcpToCan, TxStarts, TxReadsEof, TxWriteFails
<1>3. CASE c # d
  <2>1. tx'[c] = tx[c]
    BY <1>1, <1>3 DEF OtherTcpToCan, TxStarts, TxReadsEof, TxWriteFails, ReadClient, TxEnds, TypeOK
  <2> QED BY <1>2, <2>1, OthersMove
<1>4. CASE c = d
  <2>1. CASE TxStarts(d)
    <3>1. tx[c] = "created" /\ tx'[c] \in {"read", "done"}
      BY <1>1, <1>4, <2>1 DEF TxStarts, ReadClient, TxEnds, TypeOK
    <3> QED BY <1>2, <1>4, <3>1 DEF Moves, Pending
  <2>2. CASE TxReadsEof(d)
    <3>1. tx[c] = "read" /\ tx'[c] = "done"
      BY <1>1, <1>4, <2>2 DEF TxReadsEof, TxEnds, TypeOK
    <3> QED BY <1>2, <1>4, <3>1 DEF Moves, Pending
  <2>3. CASE TxWriteFails(d)
    <3>1. tx[c] = "write" /\ tx'[c] = "done"
      BY <1>1, <1>4, <2>3 DEF TxWriteFails, TxEnds, TypeOK
    <3>2. serial
      BY <3>1, TasksMeanRunning
    <3>3. unplugged'
      BY <1>2, <2>3, <3>2 DEF TxWriteFails
    <3> QED BY <1>2, <1>4, <3>1, <3>3 DEF Moves, Pending
  <2> QED BY <2>1, <2>2, <2>3 DEF OtherTcpToCan
<1> QED BY <1>3, <1>4

\* A step that changes no buffer and puts nothing on the bus keeps StreamInv.
LEMMA MovesKeepStream ==
  ASSUME SessionInv, BeforeStop, StreamInv,
         UNCHANGED stream, \A c \in Clients : Moves(c)
  PROVE  StreamInv'
<1>1. CanTypeOK
  BY DEF SessionInv
<1>2. /\ \A c \in Clients : Buffered(c) /\ Waited(c) /\ InHand(c) /\ SentSoFar(c)
      /\ BusInv
  BY DEF StreamInv
<1>3. ASSUME NEW c \in Clients
      PROVE  (Buffered(c) /\ Waited(c) /\ InHand(c) /\ SentSoFar(c))'
  BY <1>1, <1>2, ClientKept DEF Moves, stream
<1>4. BusInv'
  <2>1. ASSUME NEW c \in Clients
        PROVE  Cut(c) \in Nat /\ Cut(c)' = Cut(c) /\ (Pending(c)' => Pending(c))
    BY <1>2 DEF stream, Cut, Buffered, Moves
  <2> QED BY <1>2, <2>1, BusKept DEF stream
<1> QED BY <1>3, <1>4 DEF StreamInv

\* The steps of the owner, the clients, the handlers and the other session task.
LEMMA OtherStep ==
  ASSUME SessionInv, StreamInv, BeforeStop,
         \/ CanStart
         \/ \E d \in Clients : \/ Outside(d) \/ HandleClient(d)
                               \/ CanToTcp(d) \/ OtherTcpToCan(d)
  PROVE  StreamInv'
<1>1. TypeOK /\ \A c \in Clients : c \in orphans => tx[c] = "done"
  BY DEF SessionInv, Inv, StreamInv, Waited
<1>2. CASE CanStart
  <2>1. UNCHANGED <<conn, tx, orphans, unplugged>> /\ UNCHANGED stream
    BY <1>2 DEF CanStart, Start, OpenSerial, OpenSerialFails, Listen, ListenFails
  <2>2. \A c \in Clients : Moves(c)
    BY <1>1, <2>1, OthersMove
  <2> QED BY <2>1, <2>2, MovesKeepStream
<1>3. ASSUME NEW d \in Clients, Outside(d) PROVE StreamInv'
  <2>1. UNCHANGED <<tx, orphans>> /\ UNCHANGED stream /\ (unplugged => unplugged')
    BY <1>3 DEF Outside, Peer, Connect, ClientSendsEof, ClientResets, ClientReads,
                TransportFlushed, Unplug, StrayReadEnds
  <2>2. conn' = conn \/ \E v \in Conns : conn[d] # "lost" /\ conn' = [conn EXCEPT ![d] = v]
    BY <1>3 DEF Outside, Peer, Connect, ClientSendsEof, ClientResets, ClientReads,
                TransportFlushed, Unplug, StrayReadEnds, Attached
  <2>3. ASSUME NEW c \in Clients PROVE conn[c] = "lost" => conn'[c] = "lost"
    BY <1>1, <2>2 DEF TypeOK
  <2>4. \A c \in Clients : Moves(c)
    BY <1>1, <2>1, <2>3, OthersMove
  <2> QED BY <2>1, <2>4, MovesKeepStream
<1>4. ASSUME NEW d \in Clients, HandleClient(d) PROVE StreamInv'
  <2>1. \A c \in Clients : Moves(c)
    BY <1>1, <1>4, HandlerMoves
  <2> QED BY <1>4, <2>1, MovesKeepStream DEF HandleClient
<1>5. ASSUME NEW d \in Clients, CanToTcp(d) PROVE StreamInv'
  <2>1. UNCHANGED <<conn, tx, orphans, unplugged>> /\ UNCHANGED stream
    BY <1>5 DEF CanToTcp, SerialToTcp, RxStarts, RxReads, RxReadFails, RxForwards, RxDrained,
                RxDrainFails
  <2>2. \A c \in Clients : Moves(c)
    BY <1>1, <2>1, OthersMove
  <2> QED BY <2>1, <2>2, MovesKeepStream
<1>6. ASSUME NEW d \in Clients, OtherTcpToCan(d) PROVE StreamInv'
  <2>1. \A c \in Clients : Moves(c)
    BY <1>1, <1>6, OtherTcpToCanMoves
  <2> QED BY <1>6, <2>1, MovesKeepStream DEF OtherTcpToCan
<1> QED BY <1>2, <1>3, <1>4, <1>5, <1>6

\* A task that reads its client or goes on after a frame cuts what it can.
LEMMA CuttingKeepsStream ==
  ASSUME SessionInv, SessionInv', StreamInv, BeforeStop,
         NEW c \in Clients, Reads(c) \/ Continues(c)
  PROVE  StreamInv'
<1> DEFINE n == Cut(c)
<1>1. CanTypeOK /\ CanTypeOK' /\ TypeOK /\ TypeOK' /\ TaskInv /\ NoCrossTalk
  BY DEF SessionInv, Inv
<1>2. /\ \A d \in Clients : Buffered(d) /\ Waited(d) /\ InHand(d) /\ SentSoFar(d)
      /\ BusInv
  BY DEF StreamInv
<1>3. /\ tx[c] \in {"read", "wrote"}
      /\ UNCHANGED <<conn, orphans, unplugged, onBus>>
  BY DEF Reads, Continues
<1>4. stage = "running" /\ serial
  BY <1>3, TasksMeanRunning
<1>5. n \in Nat /\ n * FrameSize \in Nat /\ Len(buf[c]) \in Nat /\ buf[c] \in Seq(Bytes)
  BY <1>1, <1>2 DEF Buffered, CanTypeOK
<1>6. PICK b \in Seq(Bytes) :
        /\ got' = [got EXCEPT ![c] = n * FrameSize + Len(b)]
        /\ \A i \in 1 .. Len(b) : b[i] = <<c, n * FrameSize + i>>
        /\ CutFrames(c, b)
  <2>1. CASE Continues(c)
    <3>1. got[c] = n * FrameSize + Len(buf[c]) /\ got' = got /\ got \in [Clients -> Nat]
      BY <1>1, <1>2, <2>1 DEF Buffered, Continues, CanTypeOK
    <3>2. \A i \in 1 .. Len(buf[c]) : buf[c][i] = <<c, n * FrameSize + i>>
      BY <1>2 DEF Buffered
    <3> QED BY <1>5, <2>1, <3>1, <3>2 DEF Continues
  <2>2. CASE Reads(c)
    <3>1. source[c] = c
      BY <1>1, <1>4, <2>2 DEF Reads, TaskInv, NoCrossTalk
    <3>2. PICK r \in 1 .. MaxBytes[c] - got[c] :
            /\ got' = [got EXCEPT ![c] = @ + r]
            /\ CutFrames(c, buf[c] \o [i \in 1 .. r |-> <<c, got[c] + i>>])
      BY <2>2, <3>1 DEF Reads
    <3> DEFINE new == [i \in 1 .. r |-> <<c, got[c] + i>>]
    <3>3. got[c] \in Nat /\ r \in Nat
      BY <1>1, <3>2 DEF CanTypeOK
    <3>4. new \in Seq(Bytes) /\ Len(new) = r
      <4>1. \A i \in 1 .. r : <<c, got[c] + i>> \in Bytes
        BY <3>3 DEF Bytes
      <4>2. new \in [1 .. r -> Bytes]
        BY <4>1
      <4>3. new \in Seq(Bytes)
        BY <3>3, <4>2
      <4>4. DOMAIN new = 1 .. r
        OBVIOUS
      <4> HIDE DEF new
      <4> QED BY <3>3, <4>3, <4>4, LenProperties
    <3>5. buf[c] \o new \in Seq(Bytes) /\ Len(buf[c] \o new) = Len(buf[c]) + r
      BY <1>5, <3>4, ConcatProperties
    <3>6. got[c] = n * FrameSize + Len(buf[c])
      BY <1>2 DEF Buffered
    <3>7. ASSUME NEW i \in 1 .. Len(buf[c] \o new)
          PROVE  (buf[c] \o new)[i] = <<c, n * FrameSize + i>>
      <4>1. CASE i <= Len(buf[c])
        <5>1. (buf[c] \o new)[i] = buf[c][i]
          BY <1>5, <3>4, <3>5, <4>1, ConcatProperties
        <5> QED BY <1>2, <1>5, <3>3, <3>5, <4>1, <5>1 DEF Buffered
      <4>2. CASE i > Len(buf[c])
        <5>1. (buf[c] \o new)[i] = new[i - Len(buf[c])] /\ i - Len(buf[c]) \in 1 .. r
          BY <1>5, <3>3, <3>4, <3>5, <4>2, ConcatProperties
        <5>2. got[c] + (i - Len(buf[c])) = n * FrameSize + i
          BY <1>5, <3>5, <3>6
        <5>3. new[i - Len(buf[c])] = <<c, got[c] + (i - Len(buf[c]))>>
          BY <5>1
        <5> HIDE DEF new
        <5>4. (buf[c] \o new)[i] = <<c, got[c] + (i - Len(buf[c]))>>
          BY <5>1, <5>3, Zenon
        <5>5. <<c, got[c] + (i - Len(buf[c]))>> = <<c, n * FrameSize + i>>
          BY <5>2
        <5> QED BY <5>4, <5>5, Zenon
      <4>3. i <= Len(buf[c]) \/ i > Len(buf[c])
        BY <1>5, <3>3, <3>5
      <4> QED BY <4>1, <4>2, <4>3, Zenon
    <3>8. got[c] + r = n * FrameSize + Len(buf[c] \o new)
      BY <1>5, <3>3, <3>5, <3>6
    <3>9. got' = [got EXCEPT ![c] = n * FrameSize + Len(buf[c] \o new)]
      BY <3>2, <3>8
    <3> QED BY <3>2, <3>5, <3>7, <3>9
  <2> QED BY <2>1, <2>2
<1>7. PICK m \in Nat :
        /\ m >= n
        /\ n * FrameSize + Len(b) = m * FrameSize + Len(buf'[c])
        /\ \A i \in 1 .. Len(buf'[c]) : buf'[c][i] = <<c, m * FrameSize + i>>
        /\ \/ /\ tx'[c] = "write"
              /\ m > n /\ m \in ToSend(c, m)
              /\ msg'[c] = FrameOf(c, m)
              /\ \A k \in ToSend(c, m) : k <= n \/ k = m
           \/ /\ tx'[c] \in {"read", "done"}
              /\ Len(buf'[c]) < FrameSize
              /\ \A k \in ToSend(c, m) : k <= n
  BY <1>1, <1>4, <1>5, <1>6, CutFramesResult
<1>8. got'[c] = m * FrameSize + Len(buf'[c]) /\ Cut(c)' = m
  <2>1. got'[c] = m * FrameSize + Len(buf'[c])
    BY <1>1, <1>6, <1>7 DEF CanTypeOK
  <2>2. Len(buf'[c]) \in Nat
    BY <1>1 DEF CanTypeOK
  <2> QED BY <2>1, <2>2, CutIs DEF Cut
<1>9. c \notin orphans
  BY <1>2, <1>3 DEF Waited
<1>10. (Buffered(c) /\ Waited(c) /\ InHand(c))'
  <2>1. Buffered(c)'
    BY <1>7, <1>8 DEF Buffered
  <2>2. Waited(c)'
    BY <1>3, <1>7, <1>9 DEF Waited
  <2>3. InHand(c)'
    BY <1>3, <1>7, <1>8, <1>9 DEF InHand, Pending
  <2> QED BY <2>1, <2>2, <2>3
<1>11. SentSoFar(c)'
  <2> SUFFICES ASSUME NEW k \in ToSend(c, m),
                      \/ k < m
                      \/ tx'[c] \in {"read", "wrote"}
                      \/ ~Pending(c)' /\ ~unplugged' /\ conn'[c] # "lost"
               PROVE  Sent(c, k, Len(onBus))
    BY <1>3, <1>8 DEF SentSoFar, Sent
  <2>1. k \in Nat /\ k <= n
    BY <1>7 DEF Pending, ToSend
  <2>2. k \in ToSend(c, n)
    BY <1>5, <2>1 DEF ToSend
  <2> QED BY <1>2, <1>3, <2>2 DEF SentSoFar
<1>12. ASSUME NEW d \in Clients \ {c}
       PROVE  (Buffered(d) /\ Waited(d) /\ InHand(d) /\ SentSoFar(d))'
  <2>1. got'[d] = got[d] /\ buf'[d] = buf[d] /\ msg'[d] = msg[d] /\ tx'[d] = tx[d]
    BY <1>1, <1>6, CutFramesElsewhere DEF CanTypeOK
  <2> QED BY <1>1, <1>2, <1>3, <2>1, ClientKept DEF Pending, Waited
<1>13. BusInv'
  <2>1. ASSUME NEW d \in Clients
        PROVE  /\ Cut(d) \in Nat /\ Cut(d)' \in Nat
               /\ Cut(d)' > Cut(d) \/ (Cut(d)' = Cut(d) /\ (Pending(d)' => Pending(d)))
    <3>1. CASE d = c
      BY <1>3, <1>5, <1>7, <1>8, <1>9, <3>1 DEF Pending
    <3>2. CASE d # c
      <4>1. got'[d] = got[d] /\ buf'[d] = buf[d] /\ tx'[d] = tx[d]
        BY <1>1, <1>6, <3>2, CutFramesElsewhere DEF CanTypeOK
      <4> QED BY <1>2, <1>3, <4>1 DEF Cut, Pending, Buffered
    <3> QED BY <3>1, <3>2
  <2> QED BY <1>2, <1>3, <2>1, BusKept
<1> QED BY <1>10, <1>11, <1>12, <1>13 DEF StreamInv

----------------------------------------------------------------------------
(* Steps that put a frame on the bus                                       *)

\* A frame that reaches the bus leaves what was sent before as it was.
LEMMA Appended ==
  ASSUME CanTypeOK, NEW c \in Clients, onBus' = Append(onBus, msg[c])
  PROVE  /\ Len(onBus) \in Nat
         /\ DOMAIN onBus = 1 .. Len(onBus)
         /\ Len(onBus') = Len(onBus) + 1
         /\ DOMAIN onBus' = 1 .. Len(onBus) + 1
         /\ onBus'[Len(onBus) + 1] = msg[c]
         /\ \A i \in 1 .. Len(onBus) : onBus'[i] = onBus[i]
         /\ \A d, k : \A n \in 0 .. Len(onBus) : Sent(d, k, n)' <=> Sent(d, k, n)
         /\ \A d, k : Sent(d, k, Len(onBus)) => Sent(d, k, Len(onBus))'
         /\ \A d, k : msg[c] = FrameOf(d, k) => Sent(d, k, Len(onBus))'
<1>1. onBus \in Seq(Seq(Bytes)) /\ msg[c] \in Seq(Bytes)
  BY DEF CanTypeOK
<1>2. /\ onBus' \in Seq(Seq(Bytes))
      /\ Len(onBus') = Len(onBus) + 1
      /\ \A i \in 1 .. Len(onBus) : onBus'[i] = onBus[i]
      /\ onBus'[Len(onBus) + 1] = msg[c]
  BY <1>1, AppendProperties
<1>3. Len(onBus) \in Nat /\ DOMAIN onBus = 1 .. Len(onBus) /\ DOMAIN onBus' = 1 .. Len(onBus) + 1
  BY <1>1, <1>2, LenProperties
<1>4. ASSUME NEW d, NEW k, NEW n \in 0 .. Len(onBus)
      PROVE  (\E i \in 1 .. n : onBus'[i] = FrameOf(d, k)) <=> Sent(d, k, n)
  BY <1>2, <1>3 DEF Sent
<1>5. ASSUME NEW d, NEW k, Sent(d, k, Len(onBus))
      PROVE  \E i \in 1 .. Len(onBus') : onBus'[i] = FrameOf(d, k)
  BY <1>2, <1>3, <1>5 DEF Sent
<1>6. ASSUME NEW d, NEW k, msg[c] = FrameOf(d, k)
      PROVE  \E i \in 1 .. Len(onBus') : onBus'[i] = FrameOf(d, k)
  BY <1>2, <1>3, <1>6
<1>7. \A d, k : \A n \in 0 .. Len(onBus) : Sent(d, k, n)' <=> Sent(d, k, n)
  BY <1>4 DEF Sent
<1>8. \A d, k : Sent(d, k, Len(onBus)) => Sent(d, k, Len(onBus))'
  BY <1>5 DEF Sent
<1>9. \A d, k : msg[c] = FrameOf(d, k) => Sent(d, k, Len(onBus))'
  BY <1>6 DEF Sent
<1> QED BY <1>2, <1>3, <1>7, <1>8, <1>9

\* The frame in a thread's hands is the next of its client on the bus.
LEMMA SendingKeepsStream ==
  ASSUME SessionInv, StreamInv, BeforeStop,
         NEW c \in Clients, Pending(c), ~Pending(c)', onBus' = Append(onBus, msg[c]),
         tx'[c] \in {"wrote", tx[c]}, \A d \in Clients \ {c} : tx'[d] = tx[d],
         orphans' \in {orphans, orphans \ {c}},
         UNCHANGED <<got, buf, msg, conn, unplugged>>
  PROVE  StreamInv'
<1>1. CanTypeOK
  BY DEF SessionInv
<1>2. /\ \A d \in Clients : Buffered(d) /\ Waited(d) /\ InHand(d) /\ SentSoFar(d)
      /\ BusInv
  BY DEF StreamInv
<1> DEFINE n == Len(onBus)
<1>3. /\ n \in Nat
      /\ DOMAIN onBus = 1 .. n /\ DOMAIN onBus' = 1 .. n + 1
      /\ onBus'[n + 1] = msg[c]
      /\ \A i \in 1 .. n : onBus'[i] = onBus[i]
      /\ \A d, k : \A m \in 0 .. n : Sent(d, k, m)' <=> Sent(d, k, m)
      /\ \A d, k : Sent(d, k, n) => Sent(d, k, Len(onBus))'
      /\ \A d, k : msg[c] = FrameOf(d, k) => Sent(d, k, Len(onBus))'
  BY <1>1, Appended
<1> HIDE DEF n
<1>4. Cut(c) \in ToSend(c, Cut(c)) /\ msg[c] = FrameOf(c, Cut(c)) /\ Cut(c) \in Nat
  BY <1>2 DEF InHand, Buffered
<1>5. ASSUME NEW d \in Clients
      PROVE  Cut(d)' = Cut(d) /\ (Pending(d)' => Pending(d))
  <2>1. CASE d = c
    BY <2>1 DEF Cut
  <2>2. CASE d # c
    BY <2>2 DEF Cut, Pending
  <2> QED BY <2>1, <2>2
<1>6. ASSUME NEW d \in Clients PROVE (Buffered(d) /\ Waited(d) /\ InHand(d))'
  <2>1. Buffered(d)'
    BY <1>2, <1>5 DEF Buffered
  <2>2. Waited(d)'
    BY <1>2 DEF Waited, Pending
  <2>3. InHand(d)'
    BY <1>2, <1>5 DEF InHand
  <2> QED BY <2>1, <2>2, <2>3
<1>7. ASSUME NEW d \in Clients PROVE SentSoFar(d)'
  <2> SUFFICES ASSUME NEW k \in ToSend(d, Cut(d)),
                      \/ k < Cut(d)
                      \/ tx'[d] \in {"read", "wrote"}
                      \/ ~Pending(d)' /\ ~unplugged /\ conn[d] # "lost"
               PROVE  Sent(d, k, Len(onBus))'
    BY <1>5 DEF SentSoFar
  <2>1. CASE d = c
    <3>1. CASE k = Cut(c)
      BY <1>3, <1>4, <2>1, <3>1
    <3>2. CASE k # Cut(c)
      <4>1. k < Cut(c)
        BY <1>4, <2>1, <3>2 DEF ToSend
      <4>2. Sent(d, k, n)
        BY <1>2, <2>1, <4>1 DEF SentSoFar, n
      <4> QED BY <1>3, <4>2
    <3> QED BY <3>1, <3>2
  <2>2. CASE d # c
    <3>1. tx'[d] = tx[d] /\ (Pending(d)' <=> Pending(d))
      BY <2>2 DEF Pending
    <3>2. Sent(d, k, n)
      BY <1>2, <3>1 DEF SentSoFar, n
    <3> QED BY <1>3, <3>2
  <2> QED BY <2>1, <2>2
<1>8. ASSUME NEW l \in ToSend(c, Cut(c)) PROVE Sent(c, l, n) <=> l < Cut(c)
  <2>1. l < Cut(c) => Sent(c, l, n)
    BY <1>2 DEF SentSoFar, n
  <2>2. ASSUME Sent(c, l, n), l >= Cut(c) PROVE FALSE
    <3>1. l = Cut(c)
      BY <1>4, <2>2 DEF ToSend
    <3>2. PICK i \in DOMAIN onBus : onBus[i] = FrameOf(c, Cut(c))
      BY <1>3, <2>2, <3>1 DEF Sent
    <3>3. PICK d \in Clients : \E k \in ToSend(d, Cut(d)) :
            onBus[i] = FrameOf(d, k) /\ (k = Cut(d) => ~Pending(d))
      BY <1>2, <3>2 DEF BusInv
    <3>4. PICK k \in ToSend(d, Cut(d)) :
            onBus[i] = FrameOf(d, k) /\ (k = Cut(d) => ~Pending(d))
      BY <3>3
    <3>5. k \in Nat
      BY DEF ToSend
    <3>6. d = c /\ k = Cut(c)
      <4>1. FrameOf(d, k) = FrameOf(c, Cut(c))
        BY <3>2, <3>4
      <4>2. \A x, y : \A m, j \in Nat : FrameOf(x, m) = FrameOf(y, j) => x = y /\ m = j
        BY FrameOfInjective
      <4>3. FrameOf(d, k) = FrameOf(c, Cut(c)) => d = c /\ k = Cut(c)
        BY <1>4, <3>5, <4>2
      <4> QED BY <4>1, <4>3
    <3> QED BY <3>4, <3>6
  <2>3. l \in Nat
    BY DEF ToSend
  <2> QED BY <1>4, <2>1, <2>2, <2>3
<1>9. BusInv'
  <2> SUFFICES ASSUME NEW i \in 1 .. n + 1
               PROVE  \E d \in Clients : \E k \in ToSend(d, Cut(d)) :
                        /\ onBus'[i] = FrameOf(d, k)
                        /\ k = Cut(d) => ~Pending(d)'
                        /\ \A l \in ToSend(d, k) : Sent(d, l, i - 1)' <=> l < k
    BY <1>3, <1>5 DEF BusInv
  <2>1. CASE i = n + 1
    <3>1. i - 1 = n /\ n \in 0 .. n
      BY <1>3, <2>1
    <3>2. \A l \in ToSend(c, Cut(c)) : Sent(c, l, i - 1)' <=> l < Cut(c)
      BY <1>3, <1>8, <3>1
    <3> QED BY <1>3, <1>4, <2>1, <3>2
  <2>2. CASE i # n + 1
    <3>1. i \in 1 .. n /\ i - 1 \in 0 .. n
      BY <1>3, <2>2
    <3>2. PICK d \in Clients : \E k \in ToSend(d, Cut(d)) :
            /\ onBus[i] = FrameOf(d, k)
            /\ k = Cut(d) => ~Pending(d)
            /\ \A l \in ToSend(d, k) : Sent(d, l, i - 1) <=> l < k
      BY <1>2, <1>3, <3>1 DEF BusInv
    <3>3. PICK k \in ToSend(d, Cut(d)) :
            /\ onBus[i] = FrameOf(d, k)
            /\ k = Cut(d) => ~Pending(d)
            /\ \A l \in ToSend(d, k) : Sent(d, l, i - 1) <=> l < k
      BY <3>2
    <3>4. \A l \in ToSend(d, k) : Sent(d, l, i - 1)' <=> l < k
      BY <1>3, <3>1, <3>3
    <3> QED BY <1>3, <1>5, <3>1, <3>3, <3>4
  <2> QED BY <2>1, <2>2
<1> QED BY <1>6, <1>7, <1>9 DEF StreamInv

LEMMA SendStep ==
  ASSUME SessionInv, StreamInv, BeforeStop, NEW c \in Clients, Sends(c) \/ OrphanSendEnds(c)
  PROVE  StreamInv'
<1>1. /\ TypeOK /\ OrphanWriteOnlyAfterFailure
      /\ \A d \in Clients : d \in orphans => tx[d] = "done"
  BY DEF SessionInv, Inv, StreamInv, Waited
<1>2. CASE Sends(c)
  <2>1. /\ tx[c] = "write" /\ tx' = [tx EXCEPT ![c] = "wrote"]
        /\ onBus' = Append(onBus, msg[c])
        /\ UNCHANGED <<got, buf, msg, conn, orphans, unplugged>>
    BY <1>2 DEF Sends, TxWrites
  <2>2. tx'[c] = "wrote" /\ \A d \in Clients \ {c} : tx'[d] = tx[d]
    BY <1>1, <2>1 DEF TypeOK
  <2>3. Pending(c) /\ ~Pending(c)'
    BY <1>1, <2>1, <2>2 DEF Pending
  <2> QED BY <2>1, <2>2, <2>3, SendingKeepsStream
<1>3. CASE OrphanSendEnds(c)
  <2>1. /\ c \in orphans /\ orphans' = orphans \ {c}
        /\ onBus' = onBus \/ onBus' = Append(onBus, msg[c])
        /\ UNCHANGED <<got, buf, msg, conn, tx, unplugged>>
    BY <1>3 DEF OrphanSendEnds, OrphanWriteEnds
  <2>2. tx[c] = "done" /\ Pending(c) /\ ~Pending(c)'
    BY <1>1, <2>1 DEF Pending
  <2>3. conn[c] = "lost" \/ unplugged
    <3>1. stage = "running"
      BY <1>1, <2>2, TasksMeanRunning
    <3> QED BY <1>1, <2>1, <3>1 DEF OrphanWriteOnlyAfterFailure
  <2>4. CASE onBus' = onBus
    <3>1. UNCHANGED stream
      BY <2>1, <2>4 DEF stream
    <3>2. \A d \in Clients : Moves(d)
      BY <1>1, <2>1, <2>3 DEF Moves, Pending
    <3> QED BY <3>1, <3>2, MovesKeepStream
  <2>5. CASE onBus' = Append(onBus, msg[c])
    BY <2>1, <2>2, <2>5, SendingKeepsStream
  <2> QED BY <2>1, <2>4, <2>5
<1> QED BY <1>2, <1>3

----------------------------------------------------------------------------
(* The theorems                                                            *)

LEMMA CanInitInv == CanInit => CanInv
<1> SUFFICES ASSUME CanInit PROVE CanInv
  OBVIOUS
<1>1. SessionInv
  BY CanInitSessions
<1>2. ASSUME NEW c \in Clients PROVE Buffered(c) /\ Waited(c) /\ InHand(c) /\ SentSoFar(c)
  <2>1. got[c] = 0 /\ Len(buf[c]) = 0 /\ tx[c] = "none" /\ c \notin orphans
    BY DEF CanInit, Init
  <2>2. Cut(c) = 0
    <3>1. (0 * FrameSize + 0 - 0) \div FrameSize = 0
      BY CutIs
    <3> QED BY <2>1, <3>1 DEF Cut
  <2>3. Buffered(c)
    BY <2>1, <2>2 DEF Buffered
  <2> QED BY <2>1, <2>2, <2>3 DEF Waited, InHand, SentSoFar, Pending, ToSend
<1>3. BusInv
  BY DEF BusInv, CanInit
<1> QED BY <1>1, <1>2, <1>3 DEF CanInv, StreamInv

\* CanInv is inductive.
LEMMA CanInductive == CanInv /\ [CanNext]_canVars => CanInv'
<1> SUFFICES ASSUME CanInv, [CanNext]_canVars, BeforeStop' PROVE StreamInv'
  BY SessionsStep DEF CanInv, StreamInv
<1>1. SessionInv /\ SessionInv' /\ StreamInv
  BY SessionsStep DEF CanInv
<1>2. CASE CanStart
  BY <1>1, <1>2, OtherStep
     DEF BeforeStop, CanStart, Start, OpenSerial, OpenSerialFails, Listen, ListenFails
<1>3. ~CanStop
  BY DEF BeforeStop, CanStop, Stopping, Stop, StopWriterClosed, StopServerClosed,
         StopCancelled, WaitServerClosed
<1>4. ASSUME NEW c \in Clients, Outside(c) \/ HandleClient(c) \/ CanToTcp(c) \/ OtherTcpToCan(c)
      PROVE  StreamInv'
  <2>1. stage' = stage
    <3>1. CASE Outside(c)
      BY <3>1 DEF Outside, Peer, Connect, ClientSendsEof, ClientResets, ClientReads,
                  TransportFlushed, Unplug, StrayReadEnds
    <3>2. CASE HandleClient(c)
      BY <3>2 DEF HandleClient, Handler, RejectSecondClient, Serve, SessionEnds,
                  CloseSession, HandlerReturns
    <3>3. CASE CanToTcp(c)
      BY <3>3 DEF CanToTcp, SerialToTcp, RxStarts, RxReads, RxReadFails, RxForwards,
                  RxDrained, RxDrainFails
    <3>4. CASE OtherTcpToCan(c)
      BY <3>4 DEF OtherTcpToCan, TxStarts, TxReadsEof, TxWriteFails
    <3> QED BY <1>4, <3>1, <3>2, <3>3, <3>4
  <2>2. BeforeStop
    BY <2>1 DEF BeforeStop
  <2> QED BY <1>1, <1>4, <2>2, OtherStep
<1>5. ASSUME NEW c \in Clients, Reads(c) \/ Continues(c) PROVE StreamInv'
  <2>1. BeforeStop
    BY <1>5 DEF BeforeStop, Reads, Continues
  <2> QED BY <1>1, <1>5, <2>1, CuttingKeepsStream
<1>6. ASSUME NEW c \in Clients, Sends(c) \/ OrphanSendEnds(c) PROVE StreamInv'
  <2>1. BeforeStop
    BY <1>6 DEF BeforeStop, Sends, TxWrites, OrphanSendEnds, OrphanWriteEnds
  <2> QED BY <1>1, <1>6, <2>1, SendStep
<1>7. CASE UNCHANGED canVars
  <2>1. BeforeStop
    BY <1>7 DEF BeforeStop, canVars, vars
  <2>2. /\ \A c \in Clients : Buffered(c) /\ Waited(c) /\ InHand(c) /\ SentSoFar(c)
        /\ BusInv
    BY <1>1, <2>1 DEF StreamInv
  <2>3. UNCHANGED stream /\ \A c \in Clients : Moves(c)
    BY <1>7, <2>2 DEF canVars, vars, Moves, Pending, Waited
  <2> QED BY <1>1, <2>1, <2>3, MovesKeepStream
<1> QED BY <1>2, <1>3, <1>4, <1>5, <1>6, <1>7 DEF CanNext, TcpToCan

\* The sessions of the CAN server, and what its tasks have read, cut and sent.
THEOREM CanInvariance == CanSpec => []CanInv
  BY CanInitInv, CanInductive, PTL DEF CanSpec

\* The frames read from a client are those cut from its stream and those in its buffer.
LEMMA FramesRead ==
  ASSUME CanTypeOK, NEW c \in Clients, Buffered(c)
  PROVE  /\ got[c] \div FrameSize = Cut(c) + (Len(buf[c]) \div FrameSize)
         /\ Len(buf[c]) < FrameSize => got[c] \div FrameSize = Cut(c)
<1> DEFINE l == Len(buf[c])
           q == l \div FrameSize
<1>1. /\ Cut(c) \in Nat /\ FrameSize \in Nat /\ l \in Nat
      /\ got[c] = Cut(c) * FrameSize + l
  BY DEF Buffered, CanTypeOK
<1> HIDE DEF l
<1>2. q \in Nat /\ l - q * FrameSize < FrameSize
  BY <1>1, Division
<1>3. l - q * FrameSize \in Nat
  <2>1. l = q * FrameSize + (l % FrameSize) /\ (l % FrameSize) \in Nat
    BY <1>1
  <2> HIDE DEF q
  <2>2. q * FrameSize \in Nat
    BY <1>1, <1>2
  <2> QED BY <1>1, <2>1, <2>2
<1> HIDE DEF q
<1>4. Cut(c) + q \in Nat /\ got[c] = (Cut(c) + q) * FrameSize + (l - q * FrameSize)
  BY <1>1, <1>2
<1>5. got[c] \div FrameSize = Cut(c) + q
  BY <1>2, <1>3, <1>4, WholeFrames
<1>6. l < FrameSize => got[c] \div FrameSize = Cut(c)
  BY <1>1, WholeFrames
<1> QED BY <1>5, <1>6 DEF l, q

\* Until stop(), however TCP splits the streams, the bus carries each client's frames
\* unbroken, in order and once each (_tcp_to_can, _decode_frame).
THEOREM FramesKeptHolds == CanSpec => []FramesKept
<1>1. CanInv => FramesKept
  <2> SUFFICES ASSUME CanInv, stage = "running", NEW i \in DOMAIN onBus
               PROVE  \E c \in Clients : \E k \in ToSend(c, got[c] \div FrameSize) :
                        /\ onBus[i] = FrameOf(c, k)
                        /\ \A l \in ToSend(c, k) : Sent(c, l, i - 1) <=> l < k
    BY DEF FramesKept
  <2>1. CanTypeOK /\ BusInv /\ \A c \in Clients : Buffered(c)
    BY DEF CanInv, SessionInv, StreamInv, BeforeStop
  <2>2. PICK c \in Clients : \E k \in ToSend(c, Cut(c)) :
          /\ onBus[i] = FrameOf(c, k)
          /\ \A l \in ToSend(c, k) : Sent(c, l, i - 1) <=> l < k
    BY <2>1 DEF BusInv
  <2>3. Cut(c) \in Nat /\ Len(buf[c]) \in Nat
    BY <2>1 DEF Buffered, CanTypeOK
  <2>4. Len(buf[c]) \div FrameSize \in Nat
    BY <2>3, Division
  <2>5. got[c] \div FrameSize \in Nat /\ Cut(c) <= got[c] \div FrameSize
    <3>1. got[c] \div FrameSize = Cut(c) + (Len(buf[c]) \div FrameSize)
      BY <2>1, FramesRead
    <3> DEFINE q == Len(buf[c]) \div FrameSize
    <3>2. q \in Nat /\ got[c] \div FrameSize = Cut(c) + q
      BY <2>4, <3>1
    <3> HIDE DEF q
    <3> QED BY <2>3, <3>2
  <2>6. ToSend(c, Cut(c)) \subseteq ToSend(c, got[c] \div FrameSize)
    BY <2>3, <2>5 DEF ToSend
  <2> QED BY <2>2, <2>6
<1> QED BY <1>1, CanInvariance, PTL

\* Until stop() or a failure of the adapter, a task that waits for its client and one
\* that the client's orderly end has ended have sent every frame they read.
THEOREM NoneHeldBackHolds == CanSpec => []NoneHeldBack
<1>1. CanInv => NoneHeldBack
  <2> SUFFICES ASSUME CanInv, stage = "running", ~unplugged, NEW c \in Clients,
                      tx[c] = "read" \/ (tx[c] = "done" /\ conn[c] = "eof"),
                      NEW k \in ToSend(c, got[c] \div FrameSize)
               PROVE  Sent(c, k, Len(onBus))
    BY DEF NoneHeldBack
  <2>1. /\ CanTypeOK /\ OrphanWriteOnlyAfterFailure
        /\ Buffered(c) /\ Waited(c) /\ SentSoFar(c)
    BY DEF CanInv, SessionInv, Inv, StreamInv, BeforeStop
  <2>2. got[c] \div FrameSize = Cut(c)
    BY <2>1, FramesRead DEF Waited
  <2>3. c \notin orphans
    BY <2>1 DEF OrphanWriteOnlyAfterFailure, Waited
  <2> QED BY <2>1, <2>2, <2>3 DEF SentSoFar, Pending
<1> QED BY <1>1, CanInvariance, PTL

=============================================================================
