----------------------- MODULE TelemetrySeqlock_proofs -----------------------
(***************************************************************************)
(* Proofs about the way telemetry takes from Core 1 to the rider, one part *)
(* each: the sequence lock (TelemetrySeqlock), the fault ring (FaultRing)  *)
(* and the link between the ECU and the dash (DashLink).                   *)
(***************************************************************************)
EXTENDS TelemetrySeqlock, FaultRing, DashLink, FiniteSetTheorems,
        SequenceTheorems, TLAPS

-----------------------------------------------------------------------------
(* The sequence lock: for any fields, number of tries and number of        *)
(* publications, a clean read is one publication.                          *)

(* Every field is of the last publication or, behind the writer, of the    *)
(* one that runs.                                                          *)
BodyIsCurrent ==
  /\ ~Writing => unwritten = {}
  /\ \A f \in Fields :
       body[f] = IF Writing /\ f \notin unwritten THEN Published + 1
                                                  ELSE Published

(* While the number has not moved, what is copied is of one publication;   *)
(* the loop is entered again only with a try left.                         *)
CopyIsCurrent ==
  /\ begun <= Published
  /\ pc \in {"sample", "copy"} => ~clean /\ tries < MaxTries
  /\ pc = "copy" =>
       /\ s1 % 2 = 0 /\ s1 <= seq /\ begun <= s1 \div 2
       /\ s1 = seq => \A f \in Fields \ uncopied : snap[f] = Published

IInv == TypeOK /\ BodyIsCurrent /\ CopyIsCurrent /\ CleanReadIsOnePublication

-----------------------------------------------------------------------------
(* The sequence number counts half publications.                           *)
LEMMA Halves ==
  ASSUME NEW s \in Nat
  PROVE  /\ s \div 2 \in Nat
         /\ s % 2 \in {0, 1}
         /\ s % 2 = 0 => (s + 1) % 2 = 1 /\ (s + 1) \div 2 = s \div 2
         /\ s % 2 = 1 => (s + 1) % 2 = 0 /\ (s + 1) \div 2 = s \div 2 + 1
OBVIOUS

LEMMA JunkIsTyped == [f \in Fields |-> Junk] \in [Fields -> Nat \cup {Junk}]
OBVIOUS

LEMMA InitKeeps == ASSUME SeqlockAssumption, Init PROVE IInv
<1>1. TypeOK
  <2>1. snap \in [Fields -> Nat \cup {Junk}]
    BY JunkIsTyped DEF Init
  <2>2. body \in [Fields -> Nat] /\ clean \in BOOLEAN
    BY DEF Init
  <2> QED BY <2>1, <2>2 DEF SeqlockAssumption, Init, TypeOK
<1>2. Published = 0 /\ ~Writing
  <2>1. 0 \div 2 = 0 /\ 0 % 2 = 0
    OBVIOUS
  <2> QED BY <2>1 DEF Init, Published, Writing
<1>3. BodyIsCurrent
  BY <1>2 DEF Init, BodyIsCurrent
<1>4. CopyIsCurrent /\ CleanReadIsOnePublication
  BY <1>2 DEF Init, SeqlockAssumption, CopyIsCurrent, CleanReadIsOnePublication
<1> QED BY <1>1, <1>3, <1>4 DEF IInv

(* The writer never takes a finished publication back.                     *)
LEMMA WriterKeeps ==
  ASSUME IInv, SeqlockAssumption, Publish
  PROVE  IInv'
<1>1. seq \in Nat /\ body \in [Fields -> Nat] /\ unwritten \subseteq Fields
  BY DEF IInv, TypeOK
<1>2. UNCHANGED reader
  BY DEF Publish, ipc_telemetry_begin_write, WriteField,
     ipc_telemetry_end_write, reader
<1>3. TypeOK' /\ BodyIsCurrent' /\ Published <= Published'
      /\ (seq' = seq \/ seq' = seq + 1)
  <2>1. CASE ipc_telemetry_begin_write
    BY <1>1, <1>2, <2>1, Halves DEF ipc_telemetry_begin_write, IInv, TypeOK,
       BodyIsCurrent, Writing, Published, reader
  <2>2. CASE WriteField
    <3>1. PICK f \in unwritten : /\ body' = [body EXCEPT ![f] = Published + 1]
                                 /\ unwritten' = unwritten \ {f}
                                 /\ UNCHANGED <<seq, reader>>
      BY <2>2 DEF WriteField
    <3>2. Writing
      BY <3>1 DEF IInv, BodyIsCurrent
    <3> QED BY <1>1, <1>2, <3>1, <3>2, Halves DEF IInv, TypeOK, BodyIsCurrent,
               Writing, Published, reader
  <2>3. CASE ipc_telemetry_end_write
    BY <1>1, <1>2, <2>3, Halves DEF ipc_telemetry_end_write, IInv, TypeOK,
       BodyIsCurrent, Writing, Published, reader
  <2> QED BY <2>1, <2>2, <2>3 DEF Publish
<1>4. CopyIsCurrent'
  <2>1. Published \in Nat /\ Published' \in Nat
    BY <1>1, <1>3, Halves DEF Published
  <2>2. seq' = seq => Published' = Published
    BY DEF Published
  <2>3. begun \in Nat /\ s1 \in Nat
    BY DEF IInv, TypeOK
  <2> QED BY <1>1, <1>2, <1>3, <2>1, <2>2, <2>3 DEF IInv, CopyIsCurrent, reader
<1>5. CleanReadIsOnePublication'
  <2> SUFFICES ASSUME clean
               PROVE  \E n \in begun .. Published' : snap = [f \in Fields |-> n]
    BY <1>2 DEF CleanReadIsOnePublication, reader
  <2>1. PICK n \in begun .. Published : snap = [f \in Fields |-> n]
    BY DEF IInv, CleanReadIsOnePublication
  <2>2. n \in begun .. Published'
    <3>1. Published \in Nat /\ Published' \in Nat
      BY <1>1, <1>3, Halves DEF Published
    <3>2. begun \in Nat
      BY DEF IInv, TypeOK
    <3> QED BY <1>3, <2>1, <3>1, <3>2
  <2> QED BY <2>1, <2>2
<1> QED BY <1>3, <1>4, <1>5 DEF IInv

(* The reader.                                                             *)
LEMMA ReaderKeeps ==
  ASSUME IInv, SeqlockAssumption, ecu_read_state
  PROVE  IInv'
<1>1. seq \in Nat /\ Published \in Nat
  BY Halves DEF IInv, TypeOK, Published
<1>2. UNCHANGED writer
  BY DEF ecu_read_state, ReadBegins, SampleEven, SampleOdd, CopyField, Compare,
     ReadReturns
<1>3. BodyIsCurrent' /\ Published' = Published
  BY <1>2 DEF IInv, BodyIsCurrent, Writing, Published, writer
<1>4. CASE ReadBegins
  <2>1. TypeOK'
    <3>1. snap' \in [Fields -> Nat \cup {Junk}] /\ clean' \in BOOLEAN
      BY <1>4, JunkIsTyped DEF ReadBegins
    <3> QED BY <1>1, <1>2, <1>4, <3>1 DEF ReadBegins, IInv, TypeOK,
               SeqlockAssumption, writer
  <2>2. CopyIsCurrent' /\ CleanReadIsOnePublication'
    BY <1>1, <1>3, <1>4 DEF ReadBegins, SeqlockAssumption, CopyIsCurrent,
       CleanReadIsOnePublication
  <2> QED BY <1>3, <2>1, <2>2 DEF IInv
<1>5. CASE SampleEven
  BY <1>1, <1>2, <1>3, <1>5, Halves DEF SampleEven, IInv, TypeOK,
     CopyIsCurrent, CleanReadIsOnePublication, writer, Writing, Published
<1>6. CASE SampleOdd
  <2>1. TypeOK'
    BY <1>1, <1>2, <1>6 DEF SampleOdd, Retry, IInv, TypeOK, CopyIsCurrent,
       SeqlockAssumption, writer
  <2>2. CopyIsCurrent' /\ CleanReadIsOnePublication'
    BY <1>1, <1>3, <1>6 DEF SampleOdd, Retry, IInv, TypeOK, CopyIsCurrent,
       CleanReadIsOnePublication, SeqlockAssumption
  <2> QED BY <1>3, <2>1, <2>2 DEF IInv
<1>7. CASE CopyField
  <2>1. PICK f \in uncopied : /\ snap' = [snap EXCEPT ![f] = body[f]]
                              /\ uncopied' = uncopied \ {f}
    BY <1>7 DEF CopyField
  <2>2. pc = "copy" /\ UNCHANGED <<writer, pc, tries, s1, clean, begun>>
    BY <1>7 DEF CopyField
  <2>3. TypeOK' /\ CleanReadIsOnePublication'
    BY <1>2, <2>1, <2>2 DEF IInv, TypeOK, CopyIsCurrent,
       CleanReadIsOnePublication, writer
  <2>4. s1 = seq => body[f] = Published
    BY <1>1, <2>1, <2>2 DEF IInv, TypeOK, BodyIsCurrent, CopyIsCurrent, Writing
  <2>5. CopyIsCurrent'
    BY <1>1, <1>2, <1>3, <2>1, <2>2, <2>4 DEF IInv, TypeOK, CopyIsCurrent,
       writer
  <2> QED BY <1>3, <2>3, <2>5 DEF IInv
<1>8. CASE Compare
  <2>1. TypeOK' /\ CopyIsCurrent'
    <3>1. CASE seq = s1
      BY <1>1, <1>2, <1>3, <1>8, <3>1 DEF Compare, IInv, TypeOK, CopyIsCurrent,
         writer
    <3>2. CASE seq # s1
      BY <1>1, <1>2, <1>3, <1>8, <3>2 DEF Compare, Retry, IInv, TypeOK,
         CopyIsCurrent, SeqlockAssumption, writer
    <3> QED BY <3>1, <3>2
  <2>2. CleanReadIsOnePublication'
    <3>1. CASE seq = s1
      <4>1. \A f \in Fields : snap[f] = Published
        BY <1>8, <3>1 DEF Compare, IInv, CopyIsCurrent
      <4>2. snap = [f \in Fields |-> Published]
        BY <4>1 DEF IInv, TypeOK
      <4>3. Published \in begun .. Published
        BY <1>1 DEF IInv, TypeOK, CopyIsCurrent
      <4> QED BY <1>3, <1>8, <4>2, <4>3 DEF Compare, CleanReadIsOnePublication
    <3>2. CASE seq # s1
      BY <1>3, <1>8, <3>2 DEF Compare, IInv, CleanReadIsOnePublication,
         CopyIsCurrent
    <3> QED BY <3>1, <3>2
  <2> QED BY <1>3, <2>1, <2>2 DEF IInv
<1>9. CASE ReadReturns
  BY <1>1, <1>2, <1>3, <1>9 DEF ReadReturns, IInv, TypeOK, CopyIsCurrent,
     CleanReadIsOnePublication, writer
<1> QED BY <1>4, <1>5, <1>6, <1>7, <1>8, <1>9 DEF ecu_read_state

(* The inductive invariant of the sequence lock.                           *)
THEOREM Inductive == Spec => []IInv
<1>1. Init => IInv
  BY SeqlockAssumption, InitKeeps
<1>2. IInv /\ [Next]_vars => IInv'
  <2>1. ASSUME IInv, UNCHANGED vars PROVE IInv'
    BY <2>1 DEF vars, writer, reader, IInv, TypeOK, BodyIsCurrent,
       CopyIsCurrent, CleanReadIsOnePublication, Writing, Published
  <2> QED BY <2>1, SeqlockAssumption, WriterKeeps, ReaderKeeps DEF Next
<1> QED BY <1>1, <1>2, PTL DEF Spec

(* Type correctness of the block and its reader.                           *)
THEOREM TypeCorrect == Spec => []TypeOK
BY Inductive, PTL DEF IInv

(* What a read returns after two equal samples is one publication, and not *)
(* an older one than the last complete when the read began.                *)
THEOREM CleanReads == Spec => []CleanReadIsOnePublication
BY Inductive, PTL DEF IInv

-----------------------------------------------------------------------------
(* What ReadsEnd rests on: how many steps of Core 0 a read may still take. *)
Round == Cardinality(Fields) + 2

StepsLeft ==
  CASE pc = "sample" -> (MaxTries - tries) * Round + 1
    [] pc = "copy"   -> (MaxTries - tries - 1) * Round + Cardinality(uncopied) + 2
    [] pc = "return" -> 1
    [] OTHER         -> 0

StepsBounded == StepsLeft \in 0 .. MaxTries * Round + 1

StepsFall ==
  [][/\ pc # "idle" /\ ecu_read_state => StepsLeft' < StepsLeft
     /\ Publish => StepsLeft' = StepsLeft]_vars

LEMMA RoundsLeft ==
  ASSUME SeqlockAssumption, IsFiniteSet(Fields), IInv, pc \in {"sample", "copy"}
  PROVE  /\ Round \in Nat \ {0} /\ MaxTries * Round \in Nat
         /\ (MaxTries - tries) * Round \in 0 .. MaxTries * Round
         /\ (MaxTries - tries - 1) * Round \in Nat
         /\ (MaxTries - tries) * Round = (MaxTries - tries - 1) * Round + Round
         /\ (MaxTries - (tries + 1)) * Round = (MaxTries - tries - 1) * Round
<1>1. Round \in Nat \ {0} /\ MaxTries \in Nat /\ tries \in Nat /\ tries < MaxTries
  BY FS_CardinalityType DEF SeqlockAssumption, IInv, TypeOK, CopyIsCurrent, Round
<1>2. \A m, n, r \in Nat : m <= n => m * r \in 0 .. n * r
  OBVIOUS
<1>3. \A m \in Nat, r \in Nat : m * r = (m - 1) * r + r
  OBVIOUS
<1> DEFINE m == MaxTries - tries
<1>4. m \in Nat /\ m - 1 \in Nat /\ m <= MaxTries /\ MaxTries - (tries + 1) = m - 1
  BY <1>1
<1>5. m * Round = (m - 1) * Round + Round
  BY <1>1, <1>3, <1>4
<1>6. m * Round \in 0 .. MaxTries * Round /\ (m - 1) * Round \in Nat
      /\ MaxTries * Round \in Nat
  BY <1>1, <1>2, <1>4
<1> QED BY <1>1, <1>4, <1>5, <1>6

LEMMA CopiesLeft ==
  ASSUME IsFiniteSet(Fields), NEW S \in SUBSET Fields
  PROVE  IsFiniteSet(S) /\ Cardinality(S) \in 0 .. Cardinality(Fields)
BY FS_Subset, FS_CardinalityType

LEMMA BoundedInv ==
  ASSUME SeqlockAssumption, IsFiniteSet(Fields), IInv PROVE StepsBounded
<1>1. CASE pc = "sample"
  BY <1>1, RoundsLeft DEF StepsBounded, StepsLeft
<1>2. CASE pc = "copy"
  <2>1. Cardinality(uncopied) \in 0 .. Cardinality(Fields)
    BY CopiesLeft DEF IInv, TypeOK
  <2>2. /\ Round \in Nat /\ MaxTries * Round \in Nat /\ (MaxTries - tries - 1) * Round \in Nat
        /\ (MaxTries - tries - 1) * Round + Round <= MaxTries * Round
    BY <1>2, RoundsLeft
  <2> QED BY <1>2, <2>1, <2>2, FS_CardinalityType DEF StepsBounded, StepsLeft, Round
<1>3. CASE pc \notin {"sample", "copy"}
  <2>1. Round \in Nat /\ MaxTries \in Nat
    BY FS_CardinalityType DEF SeqlockAssumption, Round
  <2>2. MaxTries * Round \in Nat
    BY <2>1
  <2>3. StepsLeft \in {0, 1}
    BY <1>3 DEF StepsLeft
  <2> QED BY <2>2, <2>3 DEF StepsBounded
<1> QED BY <1>1, <1>2, <1>3

(* Each step of the reader takes it nearer to its end; none of the writer  *)
(* takes it back.                                                          *)
LEMMA ReaderFalls ==
  ASSUME SeqlockAssumption, IsFiniteSet(Fields), IInv, pc # "idle", ecu_read_state
  PROVE  StepsLeft' < StepsLeft
<1>1. CASE SampleEven
  <2>1. StepsLeft = (MaxTries - tries) * Round + 1
    BY <1>1 DEF SampleEven, StepsLeft
  <2>2. StepsLeft' = (MaxTries - tries - 1) * Round + Cardinality(Fields) + 2
    BY <1>1 DEF SampleEven, StepsLeft, Round
  <2>3. Cardinality(Fields) \in Nat
    BY FS_CardinalityType
  <2> QED BY <1>1, <2>1, <2>2, <2>3, RoundsLeft DEF SampleEven, Round
<1>2. CASE SampleOdd
  <2>1. StepsLeft = (MaxTries - tries) * Round + 1
    BY <1>2 DEF SampleOdd, StepsLeft
  <2>2. StepsLeft' \in {(MaxTries - (tries + 1)) * Round + 1, 1}
    BY <1>2 DEF SampleOdd, Retry, StepsLeft, Round
  <2> QED BY <1>2, <2>1, <2>2, RoundsLeft DEF SampleOdd
<1>3. CASE CopyField
  <2>1. PICK f \in uncopied : uncopied' = uncopied \ {f}
    BY <1>3 DEF CopyField
  <2>2. IsFiniteSet(uncopied) /\ Cardinality(uncopied) \in Nat
    BY CopiesLeft DEF IInv, TypeOK
  <2>3. Cardinality(uncopied') = Cardinality(uncopied) - 1
    BY <2>1, <2>2, FS_RemoveElement
  <2>4. /\ StepsLeft = (MaxTries - tries - 1) * Round + Cardinality(uncopied) + 2
        /\ StepsLeft' = (MaxTries - tries - 1) * Round + Cardinality(uncopied') + 2
    BY <1>3 DEF CopyField, StepsLeft, Round
  <2> QED BY <1>3, <2>2, <2>3, <2>4, RoundsLeft DEF CopyField
<1>4. CASE Compare
  <2>1. StepsLeft = (MaxTries - tries - 1) * Round + 2
    <3>1. Cardinality(uncopied) = 0 /\ pc = "copy"
      BY <1>4, FS_EmptySet DEF Compare
    <3>2. (MaxTries - tries - 1) * Round \in Nat
      BY <3>1, RoundsLeft
    <3> QED BY <3>1, <3>2 DEF StepsLeft
  <2>2. StepsLeft' \in {(MaxTries - (tries + 1)) * Round + 1, 1}
    BY <1>4 DEF Compare, Retry, StepsLeft, Round
  <2> QED BY <1>4, <2>1, <2>2, RoundsLeft DEF Compare
<1>5. CASE ReadReturns
  BY <1>5 DEF ReadReturns, StepsLeft
<1> QED BY <1>1, <1>2, <1>3, <1>4, <1>5 DEF ecu_read_state, ReadBegins

LEMMA WriterWaits == Publish => StepsLeft' = StepsLeft
BY DEF Publish, ipc_telemetry_begin_write, WriteField, ipc_telemetry_end_write, reader,
   StepsLeft, Round

(* ecu.read_state is wait-free: a call takes 8 tries of one step for each  *)
(* field and two for the samples at most, whatever Core 1 does meanwhile.  *)
THEOREM ReadsAreBounded ==
  ASSUME IsFiniteSet(Fields) PROVE Spec => []StepsBounded /\ StepsFall
<1>1. IInv => StepsBounded
  BY SeqlockAssumption, BoundedInv
<1>2. IInv /\ [Next]_vars
      => [/\ pc # "idle" /\ ecu_read_state => StepsLeft' < StepsLeft
          /\ Publish => StepsLeft' = StepsLeft]_vars
  BY SeqlockAssumption, ReaderFalls, WriterWaits
<1> QED BY <1>1, <1>2, Inductive, PTL DEF Spec, StepsFall

-----------------------------------------------------------------------------
(* Positions in a ring, or sequence numbers, that differ by less than the  *)
(* modulus fall into different slots; one modulus apart, into the same.    *)
LEMMA Euclid ==
  ASSUME NEW a \in Int, NEW n \in Nat \ {0}
  PROVE  /\ a = n * (a \div n) + (a % n)
         /\ a \div n \in Int /\ a % n \in 0 .. n - 1
OBVIOUS

LEMMA NoMultiple ==
  ASSUME NEW n \in Nat \ {0}, NEW k \in Int, -n < n * k, n * k < n
  PROVE  k = 0
OBVIOUS

LEMMA SameResidue ==
  ASSUME NEW n \in Nat \ {0}, NEW a \in Int, NEW b \in Int, a % n = b % n
  PROVE  \E k \in Int : b - a = n * k
<1> DEFINE p == a \div n
           q == b \div n
<1>1. /\ p \in Int /\ q \in Int /\ a % n \in Int
      /\ a = n * p + (a % n) /\ b = n * q + (b % n)
  BY Euclid
<1> HIDE DEF p, q
<1>2. b - a = n * q - n * p
  BY <1>1
<1>3. b - a = n * (q - p) /\ q - p \in Int
  BY <1>1, <1>2
<1> QED BY <1>3

LEMMA SlotsDiffer ==
  ASSUME NEW n \in Nat \ {0}, NEW a \in Int, NEW b \in Int,
         a < b, b < a + n
  PROVE  a % n # b % n
<1> SUFFICES ASSUME a % n = b % n PROVE FALSE
  OBVIOUS
<1>1. PICK k \in Int : b - a = n * k
  BY SameResidue
<1>2. k = 0
  BY <1>1, NoMultiple
<1> QED BY <1>1, <1>2

LEMMA OneRoundOn ==
  ASSUME NEW n \in Nat \ {0}, NEW a \in Int
  PROVE  (a + n) % n = a % n
<1> DEFINE p == a \div n
           q == (a + n) \div n
           r == a % n
           s == (a + n) % n
<1>1. p \in Int /\ a = n * p + r /\ r \in 0 .. n - 1
  BY Euclid
<1>2. q \in Int /\ a + n = n * q + s /\ s \in 0 .. n - 1
  <2>1. a + n \in Int
    OBVIOUS
  <2> QED BY <2>1, Euclid
<1> HIDE DEF p, q, r, s
<1>3. n * (q - p - 1) = r - s
  <2>1. n * q - n * p - n = r - s
    BY <1>1, <1>2
  <2>2. n * (q - p - 1) = n * q - n * p - n
    BY <1>1, <1>2
  <2> QED BY <2>1, <2>2
<1>4. q - p - 1 = 0
  BY <1>1, <1>2, <1>3, NoMultiple
<1>5. r = s
  BY <1>1, <1>2, <1>3, <1>4
<1> QED BY <1>5 DEF r, s

LEMMA ResidueIs ==
  ASSUME NEW n \in Nat \ {0}, NEW x \in Int, NEW k \in Int, NEW r \in 0 .. n - 1,
         x = n * k + r
  PROVE  x % n = r
<1> DEFINE q == x \div n
           s == x % n
<1>1. q \in Int /\ x = n * q + s /\ s \in 0 .. n - 1
  BY Euclid
<1> HIDE DEF q, s
<1>2. n * (q - k) = r - s
  <2>1. n * q - n * k = r - s
    BY <1>1
  <2>2. n * (q - k) = n * q - n * k
    BY <1>1
  <2> QED BY <2>1, <2>2
<1>3. q - k = 0
  BY <1>1, <1>2, NoMultiple
<1>4. r = s
  BY <1>1, <1>2, <1>3
<1> QED BY <1>4 DEF s

LEMMA ResidueOfNext ==
  ASSUME NEW n \in Nat \ {0}, NEW x \in Int
  PROVE  (x + 1) % n = ((x % n) + 1) % n
<1> DEFINE q == x \div n
           r == x % n
           p == (x + 1) \div n
           s == (x + 1) % n
<1>1. q \in Int /\ x = n * q + r /\ r \in 0 .. n - 1
  BY Euclid
<1>2. p \in Int /\ x + 1 = n * p + s /\ s \in 0 .. n - 1
  <2>1. x + 1 \in Int
    OBVIOUS
  <2> QED BY <2>1, Euclid
<1> HIDE DEF q, r, p, s
<1>3. r + 1 = n * (p - q) + s
  <2>1. r + 1 = n * p - n * q + s
    BY <1>1, <1>2
  <2>2. n * (p - q) = n * p - n * q
    BY <1>1, <1>2
  <2> QED BY <1>1, <1>2, <2>1, <2>2
<1>4. (r + 1) % n = s
  <2>1. r + 1 \in Int /\ p - q \in Int
    BY <1>1, <1>2
  <2> QED BY <1>2, <1>3, <2>1, ResidueIs
<1> QED BY <1>4 DEF r, s

-----------------------------------------------------------------------------
(* The fault ring, with RingLen, MaxPushes and the faults of each level    *)
(* any (FaultRing).                                                        *)
InPush    == {"push", "full?", "write", "advance"}
Loaded(l) == point[l] \in {"full?", "write", "advance"}
At(i)     == ring[i % RingLen]

(* A level raises faults of its own, and stamps one before it pushes it.   *)
(* Without a preemption one level runs at a time, on the mask it loaded.   *)
CallsInOrder ==
  /\ point["isr"] # "clear"
  /\ \A l \in Levels :
       /\ point[l] \in {"store", "window"} \cup InPush => bit[l] \in Raises(l)
       /\ point[l] \in InPush => bit[l] \in recent
  /\ ~raced => /\ point["tick"] = "idle" \/ point["isr"] = "idle"
               /\ \A l \in Levels :
                    point[l] = "store" => bits[l] = fault_bits

(* The head a level has loaded is the head, or one behind it: the PIO      *)
(* interrupt pushed once since, and can push no more.  What a level writes *)
(* next leaves a slot free.                                                *)
SlotsLoaded ==
  /\ Loaded("isr") => slot["isr"] = head
  /\ Loaded("tick") =>
       \/ slot["tick"] = head
       \/ /\ slot["tick"] = head - 1 /\ raced
          /\ point["isr"] \notin InPush /\ IsrFaults \subseteq recent
  /\ \A l \in Levels :
       point[l] \in {"write", "advance"} /\ slot[l] = head
         => head + 1 - tail < RingLen

(* From tail to head the entries are newer and newer, and newer than what  *)
(* the reader has got.                                                     *)
Increasing ==
  /\ \A i, j \in tail .. head - 1 : i < j => At(i) < At(j)
  /\ \A i \in tail .. head - 1 : delivered < At(i) /\ At(i) <= pushes
  /\ delivered <= pushes

CopyIsNext ==
  /\ rpc # "idle" => tail < head
  /\ rpc = "advance" =>
       /\ delivered < copy /\ copy <= pushes
       /\ \A i \in tail + 1 .. head - 1 : copy < At(i)
       /\ ~raced => copy = At(tail)

(* An entry on its way into a slot that the reader has not passed is newer *)
(* than all before it; once written it stays unless the other level writes *)
(* there.                                                                  *)
EntryIsNewest(l) ==
  Loaded(l) /\ tail <= slot[l] =>
    /\ delivered < entry[l] /\ entry[l] <= pushes
    /\ \A i \in tail .. slot[l] - 1 : At(i) < entry[l]
    /\ rpc = "advance" /\ tail < slot[l] => copy < entry[l]

EntriesInFlight ==
  /\ \A l \in Levels : EntryIsNewest(l)
  /\ point["isr"] = "advance" => At(head) = entry["isr"]
  /\ point["tick"] = "advance" /\ slot["tick"] = head /\ point["isr"] # "advance"
       => At(head) = entry["tick"]

RingInv == /\ RingTypeOK /\ RingBounded /\ CallsInOrder /\ SlotsLoaded
           /\ Increasing /\ CopyIsNext /\ EntriesInFlight

-----------------------------------------------------------------------------
LEMMA RingBegins == ASSUME FaultRingAssumption, RingInit PROVE RingInv
<1> USE DEF RingInit
<1>1. RingTypeOK
  BY DEF RingTypeOK, FaultRingAssumption, Levels
<1>2. RingBounded /\ CallsInOrder /\ SlotsLoaded
  BY DEF FaultRingAssumption, RingBounded, CallsInOrder, SlotsLoaded,
         Levels, InPush, Loaded
<1>3. Increasing /\ CopyIsNext /\ EntriesInFlight
  BY DEF Increasing, CopyIsNext, EntriesInFlight, EntryIsNewest, Levels,
         Loaded
<1> QED BY <1>1, <1>2, <1>3 DEF RingInv

LEMMA InSlot ==
  ASSUME RingLen \in Nat \ {0}, NEW i \in Int
  PROVE  i % RingLen \in Indices
BY Euclid DEF Indices

LEMMA RingTypes ==
  ASSUME FaultRingAssumption, RingTypeOK, CallsInOrder,
         [RingNext]_ringVars
  PROVE  RingTypeOK'
<1> USE DEF RingTypeOK, Reaches, call, pop, FaultRingAssumption
<1>1. ASSUME NEW l \in Levels, faults_set(l) PROVE RingTypeOK'
  <2>0. Raises(l) \subseteq Faults
    BY DEF Raises, Faults
  <2>1. CASE LoadBits(l)
    <3>2. bit' \in [Levels -> Faults \cup {"none"}]
      BY <2>1, <2>0 DEF LoadBits
    <3>3. raced' \in BOOLEAN
      BY <2>1 DEF LoadBits
    <3> QED BY <2>1, <3>2, <3>3 DEF LoadBits
  <2>2. CASE StoreBits(l)
    <3>1. bit[l] \in Faults
      BY <2>0, <2>2 DEF StoreBits, CallsInOrder
    <3> QED BY <2>2, <3>1 DEF StoreBits
  <2>3. CASE Coalesce(l) \/ DropOnFull(l) \/ TakeSlot(l)
    BY <2>3 DEF Coalesce, DropOnFull, TakeSlot
  <2>4. CASE Stamp(l)
    <3>1. bit[l] \in Faults
      BY <2>0, <2>4 DEF Stamp, CallsInOrder
    <3> QED BY <2>4, <3>1 DEF Stamp
  <2>5. CASE LoadHead(l)
    BY <2>5 DEF LoadHead
  <2>6. CASE WriteEntry(l)
    BY <2>6, InSlot DEF WriteEntry
  <2>7. CASE AdvanceHead(l)
    BY <2>7 DEF AdvanceHead
  <2> QED BY <1>1, <2>1, <2>2, <2>3, <2>4, <2>5, <2>6, <2>7 DEF faults_set
<1>2. CASE WindowEnds
  BY <1>2 DEF WindowEnds
<1>3. CASE ClearBits \/ ClearWindows
  BY <1>3 DEF ClearBits, ClearWindows
<1>4. CASE ipc_fault_pop
  <2>1. ring[tail % RingLen] \in Nat
    <3>1. tail \in Int
      OBVIOUS
    <3>2. tail % RingLen \in Indices
      BY <3>1, InSlot
    <3> QED BY <3>2
  <2>2. CASE PopStarts
    BY <2>2 DEF PopStarts
  <2>3. CASE CopyEntry
    BY <2>1, <2>3 DEF CopyEntry
  <2>4. CASE AdvanceTail
    BY <2>4 DEF AdvanceTail
  <2> QED BY <1>4, <2>2, <2>3, <2>4 DEF ipc_fault_pop
<1>5. CASE UNCHANGED ringVars
  BY <1>5 DEF ringVars
<1> QED BY <1>1, <1>2, <1>3, <1>4, <1>5 DEF RingNext

LEMMA AtNat ==
  ASSUME FaultRingAssumption, RingTypeOK
  PROVE  \A i \in Int : At(i) \in Nat
BY InSlot DEF FaultRingAssumption, RingTypeOK, At

(* A step that touches neither the ring, nor what is on its way into it or *)
(* out of it.                                                              *)
RingUntouched ==
  /\ UNCHANGED <<head, tail, ring, slot, entry, rpc, copy, delivered, pushes>>
  /\ ~raced' => ~raced
  /\ \A l \in Levels :
       /\ Loaded(l)' => Loaded(l)
       /\ (point[l] = "advance")' <=> point[l] = "advance"

LEMMA UntouchedKeeps ==
  ASSUME RingInv, RingUntouched
  PROVE  Increasing' /\ CopyIsNext' /\ EntriesInFlight' /\ RingBounded'
<1> USE DEF RingInv, RingUntouched
<1>1. \A i : At(i)' = At(i)
  BY DEF At
<1>2. Increasing'
  BY <1>1 DEF Increasing
<1>3. CopyIsNext'
  BY <1>1 DEF CopyIsNext
<1>4. \A l \in Levels : EntryIsNewest(l)'
  BY <1>1 DEF EntriesInFlight, EntryIsNewest
<1>5. EntriesInFlight'
  BY <1>1, <1>4 DEF EntriesInFlight, Loaded, Levels
<1> QED BY <1>2, <1>3, <1>5 DEF RingBounded

(* The steps of faults_set that do so, with what they do to the calls.     *)
LEMMA BitsKeep ==
  ASSUME FaultRingAssumption, RingInv, NEW l \in Levels,
         \/ LoadBits(l) \/ StoreBits(l) \/ Coalesce(l)
         \/ Stamp(l) \/ DropOnFull(l)
  PROVE  CallsInOrder' /\ SlotsLoaded' /\ RingUntouched
<1> USE DEF RingInv, RingTypeOK, Reaches, pop, Levels, InPush, Loaded,
            Runs
<1>1. CASE LoadBits(l)
  <2>1. CallsInOrder'
    BY <1>1 DEF LoadBits, CallsInOrder
  <2>2. SlotsLoaded'
    BY <1>1 DEF LoadBits, SlotsLoaded
  <2> QED BY <1>1, <2>1, <2>2 DEF LoadBits, RingUntouched
<1>2. CASE StoreBits(l)
  <2>1. CallsInOrder'
    BY <1>2 DEF StoreBits, CallsInOrder
  <2>2. SlotsLoaded'
    BY <1>2 DEF StoreBits, SlotsLoaded
  <2> QED BY <1>2, <2>1, <2>2 DEF StoreBits, RingUntouched
<1>3. CASE Coalesce(l)
  <2>1. CallsInOrder'
    BY <1>3 DEF Coalesce, CallsInOrder
  <2>2. SlotsLoaded'
    BY <1>3 DEF Coalesce, SlotsLoaded
  <2> QED BY <1>3, <2>1, <2>2 DEF Coalesce, RingUntouched
<1>4. CASE Stamp(l)
  <2>1. CallsInOrder'
    BY <1>4 DEF Stamp, CallsInOrder
  <2>2. SlotsLoaded'
    BY <1>4 DEF Stamp, SlotsLoaded, CallsInOrder, Raises, FaultRingAssumption
  <2> QED BY <1>4, <2>1, <2>2 DEF Stamp, RingUntouched
<1>5. CASE DropOnFull(l)
  <2>1. CallsInOrder'
    BY <1>5 DEF DropOnFull, CallsInOrder
  <2>2. SlotsLoaded'
    BY <1>5 DEF DropOnFull, SlotsLoaded
  <2> QED BY <1>5, <2>1, <2>2 DEF DropOnFull, RingUntouched
<1> QED BY <1>1, <1>2, <1>3, <1>4, <1>5

(* Not full, the ring has a slot to spare beside the one taken.            *)
LEMMA RoomLeft ==
  ASSUME FaultRingAssumption, RingInv, ~Full(head)
  PROVE  head + 1 - tail < RingLen
<1>1. head \in Nat /\ tail \in Nat /\ RingLen \in Nat \ {0}
      /\ head - tail < RingLen
  BY DEF RingInv, RingTypeOK, FaultRingAssumption, RingBounded
<1>2. SUFFICES ASSUME head + 1 = tail + RingLen PROVE FALSE
  BY <1>1
<1>3. (tail + RingLen) % RingLen = tail % RingLen
  <2>1. tail \in Int
    BY <1>1
  <2> QED BY <1>1, <2>1, OneRoundOn
<1> QED BY <1>2, <1>3 DEF Full

LEMMA TakeKeeps ==
  ASSUME FaultRingAssumption, RingInv, NEW l \in Levels, TakeSlot(l)
  PROVE  CallsInOrder' /\ SlotsLoaded' /\ RingUntouched
<1> USE DEF RingInv, RingTypeOK, Reaches, pop, Levels, InPush, Loaded,
            Runs
<1>1. CallsInOrder'
  BY DEF TakeSlot, CallsInOrder
<1>2. SlotsLoaded'
  <2>1. slot[l] = head => head + 1 - tail < RingLen
    BY RoomLeft DEF TakeSlot
  <2> QED BY <2>1 DEF TakeSlot, SlotsLoaded
<1> QED BY <1>1, <1>2 DEF TakeSlot, RingUntouched

LEMMA ClearingKeeps ==
  ASSUME RingInv, WindowEnds \/ ClearBits \/ ClearWindows
  PROVE  CallsInOrder' /\ SlotsLoaded' /\ RingUntouched
<1> USE DEF RingInv, RingTypeOK, Reaches, call, pop, Levels, InPush,
            Loaded, Runs
<1>1. CASE WindowEnds
  BY <1>1 DEF WindowEnds, CallsInOrder, SlotsLoaded, RingUntouched
<1>2. CASE ClearBits
  <2>1. CallsInOrder'
    BY <1>2 DEF ClearBits, CallsInOrder
  <2>2. SlotsLoaded' /\ RingUntouched
    BY <1>2 DEF ClearBits, SlotsLoaded, RingUntouched
  <2> QED BY <2>1, <2>2
<1>3. CASE ClearWindows
  <2>1. CallsInOrder'
    BY <1>3 DEF ClearWindows, CallsInOrder
  <2>2. SlotsLoaded' /\ RingUntouched
    BY <1>3 DEF ClearWindows, SlotsLoaded, RingUntouched
  <2> QED BY <2>1, <2>2
<1> QED BY <1>1, <1>2, <1>3

LEMMA LoadHeadKeeps ==
  ASSUME FaultRingAssumption, RingInv, NEW l \in Levels, LoadHead(l)
  PROVE  /\ CallsInOrder' /\ SlotsLoaded' /\ Increasing' /\ CopyIsNext'
         /\ EntriesInFlight' /\ RingBounded'
<1> USE DEF RingInv, RingTypeOK, Reaches, pop, Levels, InPush, Loaded,
            Runs, LoadHead
<1>1. CallsInOrder'
  BY DEF CallsInOrder
<1>2. SlotsLoaded'
  BY DEF SlotsLoaded
<1>3. \A i : At(i)' = At(i)
  BY DEF At
<1>a. \A i \in tail .. head - 1 : At(i) \in Nat
  BY AtNat
<1>4. Increasing' /\ CopyIsNext' /\ RingBounded'
  <2>1. Increasing'
    BY <1>3, <1>a DEF Increasing
  <2>2. CopyIsNext'
    BY <1>3 DEF CopyIsNext
  <2> QED BY <2>1, <2>2 DEF RingBounded
<1>5. EntryIsNewest(l)'
  <2>1. slot'[l] = head /\ entry'[l] = pushes + 1
    OBVIOUS
  <2>2. delivered < pushes + 1 /\ (rpc = "advance" => copy < pushes + 1)
    BY DEF Increasing, CopyIsNext
  <2>3. \A i \in tail .. head - 1 : At(i) < pushes + 1
    BY <1>a DEF Increasing
  <2> QED BY <1>3, <2>1, <2>2, <2>3 DEF EntryIsNewest
<1>6. ASSUME NEW m \in Levels, m # l PROVE EntryIsNewest(m)'
  BY <1>3, <1>6 DEF EntryIsNewest, EntriesInFlight
<1>7. EntriesInFlight'
  BY <1>3, <1>5, <1>6 DEF EntriesInFlight
<1> QED BY <1>1, <1>2, <1>4, <1>7

(* A write changes one slot, and no other within a round of it.            *)
LEMMA WriteChangesOne ==
  ASSUME FaultRingAssumption, RingInv, NEW l \in Levels, WriteEntry(l)
  PROVE  /\ At(slot[l])' = entry[l]
         /\ \A i \in Int : i # slot[l] /\ i < slot[l] + RingLen
                              /\ slot[l] < i + RingLen => At(i)' = At(i)
<1> USE DEF RingInv, RingTypeOK, FaultRingAssumption
<1>1. slot[l] \in Nat /\ slot[l] % RingLen \in Indices
  <2>1. slot[l] \in Nat
    OBVIOUS
  <2> QED BY <2>1, InSlot
<1>2. ring' = [ring EXCEPT ![slot[l] % RingLen] = entry[l]] /\ slot' = slot
  BY DEF WriteEntry
<1>3. At(slot[l])' = entry[l]
  BY <1>1, <1>2 DEF At
<1>4. ASSUME NEW i \in Int, i # slot[l], i < slot[l] + RingLen,
             slot[l] < i + RingLen
      PROVE  At(i)' = At(i)
  <2>1. i % RingLen # slot[l] % RingLen
    <3>1. CASE i < slot[l]
      BY <1>1, <1>4, <3>1, SlotsDiffer
    <3>2. CASE slot[l] < i
      BY <1>1, <1>4, <3>2, SlotsDiffer
    <3> QED BY <1>1, <1>4, <3>1, <3>2
  <2>2. i % RingLen \in Indices
    BY InSlot
  <2> QED BY <1>2, <2>1, <2>2 DEF At
<1> QED BY <1>3, <1>4

LEMMA WriteKeeps ==
  ASSUME FaultRingAssumption, RingInv, NEW l \in Levels, WriteEntry(l)
  PROVE  /\ CallsInOrder' /\ SlotsLoaded' /\ Increasing' /\ CopyIsNext'
         /\ EntriesInFlight' /\ RingBounded'
<1>1. /\ CallsInOrder' /\ SlotsLoaded' /\ RingBounded'
      /\ UNCHANGED <<head, tail, slot, entry, rpc, copy, delivered, pushes, raced>>
  <2> USE DEF RingInv, RingTypeOK, Reaches, pop, Levels, InPush, Loaded,
              Runs, WriteEntry
  <2>1. CallsInOrder'
    BY DEF CallsInOrder
  <2>2. SlotsLoaded'
    BY DEF SlotsLoaded
  <2> QED BY <2>1, <2>2 DEF RingBounded
<1>2. /\ head \in Nat /\ tail \in Nat /\ RingLen \in Nat \ {0}
      /\ tail <= head /\ head - tail < RingLen
      /\ slot[l] \in {head, head - 1} /\ entry[l] \in Nat /\ Loaded(l)
      /\ slot[l] = head => head + 1 - tail < RingLen
  BY DEF RingInv, RingTypeOK, FaultRingAssumption, RingBounded,
         SlotsLoaded, WriteEntry, Reaches, Loaded, Levels
<1>3. /\ At(slot[l])' = entry[l]
      /\ \A i \in tail .. head - 1 : i # slot[l] => At(i)' = At(i)
  <2>1. ASSUME NEW i \in tail .. head - 1, i # slot[l]
        PROVE  i \in Int /\ i < slot[l] + RingLen /\ slot[l] < i + RingLen
    BY <1>2, <2>1
  <2> QED BY <2>1, WriteChangesOne
<1>4. tail <= slot[l] =>
        /\ delivered < entry[l] /\ entry[l] <= pushes
        /\ \A i \in tail .. slot[l] - 1 : At(i) < entry[l]
        /\ rpc = "advance" /\ tail < slot[l] => copy < entry[l]
  BY <1>2 DEF RingInv, EntriesInFlight, EntryIsNewest
<1>5. Increasing'
  BY <1>1, <1>2, <1>3, <1>4 DEF RingInv, Increasing
<1>6. CopyIsNext'
  <2>1. ~raced /\ rpc = "advance" => At(tail)' = At(tail)
    BY <1>1, <1>2, <1>3 DEF RingInv, CopyIsNext, SlotsLoaded, CallsInOrder, Levels, Loaded
  <2> QED BY <1>1, <1>2, <1>3, <1>4, <2>1 DEF RingInv, CopyIsNext
<1>7. EntriesInFlight'
  <2>1. \A m \in Levels : Loaded(m)' => Loaded(m)
    BY DEF RingInv, RingTypeOK, WriteEntry, Reaches, Loaded
  <2>2. ASSUME NEW m \in Levels PROVE EntryIsNewest(m)'
    <3>1. Loaded(m) => slot[m] \in {head, head - 1} /\ (m = l \/ slot[l] = head)
      BY DEF RingInv, SlotsLoaded, WriteEntry, Reaches, Runs,
             Levels, Loaded
    <3>2. Loaded(m) => \A i \in tail .. slot[m] - 1 : At(i)' = At(i)
      BY <1>2, <1>3, <3>1
    <3> QED BY <1>1, <2>1, <3>2 DEF RingInv, EntriesInFlight, EntryIsNewest
  <2> QED BY <1>1, <1>2, <1>3, <2>2 DEF RingInv, EntriesInFlight, Levels, WriteEntry, Reaches,
            RingTypeOK, Runs, SlotsLoaded, Loaded
<1> QED BY <1>1, <1>5, <1>6, <1>7

LEMMA AdvanceKeeps ==
  ASSUME FaultRingAssumption, RingInv, NEW l \in Levels, AdvanceHead(l)
  PROVE  /\ CallsInOrder' /\ SlotsLoaded' /\ Increasing' /\ CopyIsNext'
         /\ EntriesInFlight' /\ RingBounded'
<1> USE DEF RingInv, RingTypeOK, Reaches, pop, Levels, InPush, Loaded,
            Runs, AdvanceHead
<1>1. CallsInOrder'
  BY DEF CallsInOrder
<1>2. SlotsLoaded'
  BY DEF SlotsLoaded, CallsInOrder, FaultRingAssumption, Raises, RingBounded
<1>3. \A i : At(i)' = At(i)
  BY DEF At
<1>4. \/ head' = head
      \/ /\ head' = head + 1 /\ slot[l] = head /\ At(head) = entry[l]
         /\ EntryIsNewest(l) /\ head + 1 - tail < RingLen
  BY DEF SlotsLoaded, EntriesInFlight
<1>5. RingBounded'
  BY <1>4 DEF RingBounded
<1>6. Increasing'
  BY <1>3, <1>4 DEF Increasing, EntryIsNewest, RingBounded
<1>7. CopyIsNext'
  BY <1>3, <1>4 DEF CopyIsNext, EntryIsNewest, RingBounded
<1>8. EntriesInFlight'
  <2>1. \A m \in Levels : EntryIsNewest(m)'
    BY <1>3 DEF EntriesInFlight, EntryIsNewest
  <2> QED BY <1>3, <2>1 DEF EntriesInFlight, SlotsLoaded, CallsInOrder
<1> QED BY <1>1, <1>2, <1>5, <1>6, <1>7, <1>8

LEMMA PopKeeps ==
  ASSUME FaultRingAssumption, RingInv, ipc_fault_pop
  PROVE  /\ CallsInOrder' /\ SlotsLoaded' /\ Increasing' /\ CopyIsNext'
         /\ EntriesInFlight' /\ RingBounded'
<1> USE DEF RingInv, RingTypeOK, call, Levels, InPush, Loaded
<1>0. CallsInOrder'
  BY DEF CallsInOrder, ipc_fault_pop, PopStarts, CopyEntry, AdvanceTail
<1>1. CASE PopStarts
  <2>1. \A i : At(i)' = At(i)
    BY <1>1 DEF PopStarts, At
  <2>2. tail < head
    <3>1. tail # head
      BY <1>1 DEF PopStarts
    <3> QED BY <3>1 DEF RingBounded
  <2>3. EntriesInFlight'
    BY <1>1, <2>1 DEF PopStarts, EntriesInFlight, EntryIsNewest
  <2> QED BY <1>0, <1>1, <2>1, <2>2, <2>3
          DEF PopStarts, Increasing, CopyIsNext, SlotsLoaded, RingBounded
<1>2. CASE CopyEntry
  <2>1. /\ \A i : At(i)' = At(i)
        /\ tail < head /\ copy' = At(tail) /\ rpc' = "advance"
    BY <1>2 DEF CopyEntry, At, CopyIsNext
  <2>2. EntriesInFlight'
    BY <1>2, <2>1 DEF CopyEntry, EntriesInFlight, EntryIsNewest
  <2>3. CopyIsNext'
    BY <1>2, <2>1 DEF CopyEntry, CopyIsNext, Increasing
  <2> QED BY <1>0, <1>2, <2>1, <2>2, <2>3
          DEF CopyEntry, Increasing, SlotsLoaded, RingBounded
<1>3. CASE AdvanceTail
  <2>1. /\ \A i : At(i)' = At(i)
        /\ tail < head /\ tail' = tail + 1 /\ delivered' = copy
    BY <1>3 DEF AdvanceTail, At, CopyIsNext
  <2>2. EntriesInFlight'
    <3>1. \A m \in Levels : EntryIsNewest(m)'
      BY <1>3, <2>1 DEF AdvanceTail, EntriesInFlight, EntryIsNewest
    <3> QED BY <1>3, <2>1, <3>1 DEF AdvanceTail, EntriesInFlight
  <2>3. Increasing' /\ CopyIsNext'
    BY <1>3, <2>1 DEF AdvanceTail, Increasing, CopyIsNext
  <2> QED BY <1>0, <1>3, <2>1, <2>2, <2>3
          DEF AdvanceTail, SlotsLoaded, RingBounded
<1> QED BY <1>1, <1>2, <1>3 DEF ipc_fault_pop

LEMMA RingStep ==
  ASSUME FaultRingAssumption, RingInv, [RingNext]_ringVars
  PROVE  RingInv'
<1>1. RingTypeOK'
  BY RingTypes DEF RingInv
<1>2. ASSUME NEW l \in Levels, faults_set(l) PROVE RingInv'
  BY <1>1, <1>2, BitsKeep, TakeKeeps, UntouchedKeeps, LoadHeadKeeps, WriteKeeps,
     AdvanceKeeps DEF faults_set, RingInv
<1>3. CASE WindowEnds \/ ClearBits \/ ClearWindows
  BY <1>1, <1>3, ClearingKeeps, UntouchedKeeps DEF RingInv
<1>4. CASE ipc_fault_pop
  BY <1>1, <1>4, PopKeeps DEF RingInv
<1>5. CASE UNCHANGED ringVars
  <2>1. CallsInOrder' /\ SlotsLoaded' /\ RingUntouched
    BY <1>5 DEF ringVars, call, pop, RingInv, CallsInOrder, SlotsLoaded,
                RingUntouched, Loaded
  <2> QED BY <1>1, <2>1, UntouchedKeeps DEF RingInv
<1> QED BY <1>2, <1>3, <1>4, <1>5 DEF RingNext

LEMMA RingInvariant == RingSpec => []RingInv
BY FaultRingAssumption, RingBegins, RingStep, PTL DEF RingSpec

(* Every access to the ring stays inside it, and serial numbers are what   *)
(* it holds: RingTypeOK.                                                    *)
THEOREM RingTypeCorrect == RingSpec => []RingTypeOK
<1>1. RingInv => RingTypeOK
  BY DEF RingInv
<1> QED BY <1>1, RingInvariant, PTL

(* The tail never overtakes the head nor the head laps the tail, although  *)
(* two interrupt levels push and one may store a head it loaded before the *)
(* other's push.                                                           *)
THEOREM RingStaysBounded == RingSpec => []RingBounded
<1>1. RingInv => RingBounded
  BY DEF RingInv
<1> QED BY <1>1, RingInvariant, PTL

(* ipc_fault_pop delivers faults in the order they were raised, each once. *)
THEOREM FaultsComeInOrder == RingSpec => DrainedInOrder
<1>1. ASSUME RingInv, [RingNext]_ringVars, rpc = "advance", rpc' = "idle"
      PROVE  delivered' > delivered
  <2>1. delivered' = copy
    BY <1>1 DEF RingNext, ringVars, pop, faults_set, LoadBits,
       StoreBits, Coalesce, Stamp, LoadHead, DropOnFull,
       TakeSlot, WriteEntry, AdvanceHead, WindowEnds,
       ClearBits, ClearWindows, ipc_fault_pop, PopStarts,
       CopyEntry, AdvanceTail
  <2> QED BY <1>1, <2>1 DEF RingInv, CopyIsNext, RingTypeOK
<1>2. RingInv /\ [RingNext]_ringVars
        => [rpc = "advance" /\ rpc' = "idle" => delivered' > delivered]_ringVars
  BY <1>1
<1> QED BY <1>2, RingInvariant, PTL DEF RingSpec, DrainedInOrder

(* A latched bit is lost by faults_clear_all alone, as long as the PIO     *)
(* interrupt does not raise a fault inside a call of the tick.             *)
THEOREM BitsStayLatched == RingSpec => BitsAreLatched
<1>1. ASSUME RingInv, [RingNext]_ringVars, fault_bits \ fault_bits' # {}
      PROVE  point'["tick"] = "clear" \/ raced'
  <2>1. CASE \E l \in Levels : StoreBits(l)
    BY <1>1, <2>1 DEF StoreBits, Reaches, RingInv, CallsInOrder
  <2>2. CASE ClearBits
    BY <1>1, <2>2 DEF ClearBits, Reaches, RingInv, RingTypeOK, Levels
  <2>3. \/ UNCHANGED fault_bits \/ ClearBits
        \/ \E l \in Levels : StoreBits(l)
    BY <1>1 DEF RingNext, ringVars, faults_set, LoadBits,
       Coalesce, Stamp, LoadHead, DropOnFull,
       TakeSlot, WriteEntry, AdvanceHead, WindowEnds,
       ClearWindows, ipc_fault_pop, PopStarts,
       CopyEntry, AdvanceTail
  <2> QED BY <1>1, <2>1, <2>2, <2>3
<1>2. RingInv /\ [RingNext]_ringVars
        => [fault_bits \ fault_bits' # {} => point'["tick"] = "clear" \/ raced'
           ]_ringVars
  BY <1>1
<1> QED BY <1>2, RingInvariant, PTL DEF RingSpec, BitsAreLatched

-----------------------------------------------------------------------------
(* The queue that the ring stands for.                                     *)
Queue == [i \in 1 .. head - tail |-> At(tail + i - 1)]

LEMMA QueueGrows ==
  ASSUME FaultRingAssumption, RingInv, head' = head + 1,
         UNCHANGED <<ring, tail>>
  PROVE  /\ Queue' = Append(Queue, At(head)) /\ Len(Queue) = head - tail
         /\ Queue'[Len(Queue')] = At(head) /\ Queue' # <<>>
<1>1. head \in Nat /\ tail \in Nat /\ tail <= head
  BY DEF RingInv, RingTypeOK, RingBounded
<1>2. \A i \in Int : At(i) \in Nat /\ At(i)' = At(i)
  BY AtNat DEF RingInv, At
<1>3. Queue \in Seq(Nat) /\ Len(Queue) = head - tail
  BY <1>1, <1>2 DEF Queue
<1>4. Queue' = [i \in 1 .. head - tail + 1 |-> At(tail + i - 1)]
  BY <1>1, <1>2 DEF Queue
<1>5. Queue' = Append(Queue, At(head))
  BY <1>1, <1>2, <1>3, <1>4 DEF Queue
<1>6. At(head) \in Nat
  BY <1>1, <1>2
<1>7. /\ Len(Append(Queue, At(head))) = Len(Queue) + 1
      /\ Append(Queue, At(head))[Len(Queue) + 1] = At(head)
      /\ Append(Queue, At(head)) # <<>>
  BY <1>3, <1>6, AppendProperties
<1> QED BY <1>3, <1>5, <1>7

LEMMA QueueShrinks ==
  ASSUME FaultRingAssumption, RingInv, tail' = tail + 1, tail < head,
         UNCHANGED <<ring, head>>
  PROVE  Queue' = Tail(Queue) /\ Head(Queue) = At(tail) /\ Queue # <<>>
<1>1. head \in Nat /\ tail \in Nat
  BY DEF RingInv, RingTypeOK
<1>2. \A i \in Int : At(i) \in Nat /\ At(i)' = At(i)
  BY AtNat DEF RingInv, At
<1>3. Queue \in Seq(Nat) /\ Len(Queue) = head - tail
  BY <1>1, <1>2 DEF Queue
<1>4. Queue' = [i \in 1 .. head - tail - 1 |-> At(tail + i)]
  BY <1>1, <1>2 DEF Queue
<1>5. Queue # <<>> /\ Queue[1] = At(tail)
  BY <1>1, <1>3 DEF Queue
<1>6. /\ Tail(Queue) = [i \in 1 .. head - tail - 1 |-> Queue[i + 1]]
      /\ Head(Queue) = Queue[1]
  <2>1. Tail(Queue) \in Seq(Nat) /\ Len(Tail(Queue)) = head - tail - 1
        /\ \A i \in 1 .. Len(Tail(Queue)) : Tail(Queue)[i] = Queue[i + 1]
    BY <1>3, <1>5, HeadTailProperties
  <2>2. Tail(Queue) \in [1 .. head - tail - 1 -> Nat]
    BY <2>1, LenProperties
  <2>3. Tail(Queue) = [i \in 1 .. head - tail - 1 |-> Tail(Queue)[i]]
    BY <2>2
  <2>4. Tail(Queue) = [i \in 1 .. head - tail - 1 |-> Queue[i + 1]]
    BY <2>1, <2>3
  <2>5. Head(Queue) = Queue[1]
    BY <1>3, <1>5
  <2> QED BY <2>4, <2>5
<1>7. \A i \in 1 .. head - tail - 1 : Queue[i + 1] = At(tail + i)
  BY <1>1 DEF Queue
<1> QED BY <1>4, <1>5, <1>6, <1>7

(* Without a preemption a write goes to the head, beyond the queue.        *)
LEMMA WriteIsOutside ==
  ASSUME FaultRingAssumption, RingInv, ~raced, NEW l \in Levels,
         WriteEntry(l)
  PROVE  Queue' = Queue
<1>1. /\ head \in Nat /\ tail \in Nat /\ RingLen \in Nat /\ tail <= head
      /\ head - tail < RingLen /\ slot[l] = head
      /\ UNCHANGED <<head, tail>>
  BY DEF RingInv, RingTypeOK, RingBounded, SlotsLoaded, Loaded,
         WriteEntry, Reaches, Levels, FaultRingAssumption
<1>2. \A i \in 1 .. head - tail : At(tail + i - 1)' = At(tail + i - 1)
  <2>1. ASSUME NEW i \in 1 .. head - tail
        PROVE  /\ tail + i - 1 \in Int /\ tail + i - 1 # slot[l]
               /\ tail + i - 1 < slot[l] + RingLen
               /\ slot[l] < tail + i - 1 + RingLen
    BY <1>1
  <2>2. ASSUME NEW i \in 1 .. head - tail
        PROVE  At(tail + i - 1)' = At(tail + i - 1)
    <3> DEFINE j == tail + i - 1
    <3>1. /\ j \in Int /\ j # slot[l] /\ j < slot[l] + RingLen
          /\ slot[l] < j + RingLen /\ j' = j
      BY <1>1, <2>1
    <3> HIDE DEF j
    <3>2. At(j)' = At(j)
      BY <3>1, WriteChangesOne
    <3> QED BY <3>2 DEF j
  <2> QED BY <2>2
<1> QED BY <1>1, <1>2 DEF Queue

(* The ring is the bounded queue of FaultLog: each step takes one fault    *)
(* in, delivers the oldest or leaves the queue alone.                      *)
LEMMA RingStepIsLogStep ==
  ASSUME FaultRingAssumption, RingInv, [RingNext]_ringVars, ~raced'
  PROVE  [Log!LNext]_(Log!lvars)
<1> USE DEF Log!LNext, Log!lvars
<1>1. ~raced
  BY DEF RingInv, RingTypeOK, RingNext, ringVars, pop, faults_set,
     LoadBits, StoreBits, Coalesce, Stamp, LoadHead,
     DropOnFull, TakeSlot, WriteEntry, AdvanceHead,
     WindowEnds, ClearBits, ClearWindows, ipc_fault_pop,
     PopStarts, CopyEntry, AdvanceTail
<1>2. ASSUME NEW l \in Levels, AdvanceHead(l) PROVE Log!TakeIn
  <2>1. /\ head' = head + 1 /\ At(head) = entry[l] /\ EntryIsNewest(l)
        /\ head + 1 - tail < RingLen /\ UNCHANGED <<ring, tail, delivered>>
        /\ Loaded(l) /\ slot[l] = head
    BY <1>1, <1>2 DEF AdvanceHead, Reaches, Runs, RingInv, SlotsLoaded,
       EntriesInFlight, pop, Levels, CallsInOrder, Loaded
  <2>2. /\ Queue' = Append(Queue, At(head)) /\ Len(Queue) = head - tail
        /\ Queue'[Len(Queue')] = At(head) /\ Queue' # <<>>
    BY <2>1, QueueGrows
  <2>3. At(head) > IF Queue = <<>> THEN delivered ELSE Queue[Len(Queue)]
    BY <2>1, <2>2 DEF EntryIsNewest, Queue, RingInv, RingTypeOK, RingBounded
  <2>4. Log!TakeIn <=>
          /\ Len(Queue) < RingLen - 1
          /\ Queue' # <<>> /\ Queue' = Append(Queue, Queue'[Len(Queue')])
          /\ Queue'[Len(Queue')]
               > IF Queue = <<>> THEN delivered ELSE Queue[Len(Queue)]
          /\ UNCHANGED delivered
    BY DEF Log!TakeIn, Log!Newest, Queue, At
  <2>5. Len(Queue) < RingLen - 1
    BY <2>1, <2>2 DEF RingInv, RingTypeOK, FaultRingAssumption
  <2> QED BY <2>1, <2>2, <2>3, <2>4, <2>5
<1>3. CASE AdvanceTail
  <2>1. /\ tail' = tail + 1 /\ delivered' = copy /\ tail < head
        /\ copy = At(tail) /\ UNCHANGED <<ring, head>>
    BY <1>1, <1>3 DEF AdvanceTail, RingInv, CopyIsNext
  <2>2. Queue' = Tail(Queue) /\ Head(Queue) = At(tail) /\ Queue # <<>>
    BY <2>1, QueueShrinks
  <2> QED BY <2>1, <2>2 DEF Log!Deliver, Queue, At
<1>4. ASSUME NEW l \in Levels, WriteEntry(l)
      PROVE  Queue' = Queue /\ delivered' = delivered
  BY <1>1, <1>4, WriteIsOutside DEF WriteEntry, pop
<1>5. \/ \E l \in Levels : AdvanceHead(l) \/ WriteEntry(l)
      \/ AdvanceTail
      \/ UNCHANGED <<head, tail, ring, delivered>>
  BY DEF RingNext, ringVars, pop, faults_set,
     LoadBits, StoreBits, Coalesce, Stamp, LoadHead,
     DropOnFull, TakeSlot,
     WindowEnds, ClearBits, ClearWindows, ipc_fault_pop,
     PopStarts, CopyEntry
<1> QED BY <1>2, <1>3, <1>4, <1>5 DEF Queue, At

(* Until the PIO interrupt raises a fault inside a call of the tick,       *)
(* nothing that went into the ring is lost, doubled or reordered.          *)
THEOREM RingImplementsLog == RingSpec => KeepsLog
<1>1. RingInit => Log!LInit
  BY DEF RingInit, Log!LInit
<1>2. RingInv /\ [RingNext]_ringVars
        => [Log!LNext \/ raced']_(Log!lvars)
  BY FaultRingAssumption, RingStepIsLogStep
<1> QED BY <1>1, <1>2, RingInvariant, PTL DEF RingSpec, KeepsLog

-----------------------------------------------------------------------------
(* The telemetry link, for any modulus of the sequence numbers and any     *)
(* times (DashLink).                                                       *)

(* What travels is of this start of the ECU, and its number the last used; *)
(* a snapshot is a frame of this start or an earlier one.                  *)
FramesOfBoots ==
  /\ state = "PAYLOAD" => left \in 1 .. 2
  /\ pos > 0 => sent.boot = boot
  /\ pos > 0 /\ sent.kind = "state" => number = (sent.seq + 1) % SeqMod
  /\ snapshot # Blank => snapshot.kind = "state" /\ snapshot.boot <= boot

(* Since a snapshot was taken one number was used a tick at most: it is so *)
(* far behind the next number, and behind the frame that travels.          *)
Behind(d) == /\ number = (snapshot.seq + d) % SeqMod
             /\ 1 <= d /\ d <= 1 + age + IF opened THEN 1 ELSE 0
             /\ pos > 0 /\ sent.kind = "state" => d >= 2

NumbersAhead ==
  snapshot # Blank /\ snapshot.boot = boot /\ age <= LostAfter
    => \E d \in Nat : Behind(d)

(* A snapshot of an earlier start is older than this one.                  *)
OldIsOld == snapshot # Blank /\ snapshot.boot # boot => age >= since

LinkInv == /\ LinkTypeOK /\ FramesOfBoots /\ NumbersAhead /\ OldIsOld
           /\ NoneRefused

LEMMA BlankIsFrame == ASSUME LinkAssumption PROVE Blank \in Frames
BY DEF LinkAssumption, Blank, Frames

LEMMA LinkBegins == ASSUME LinkAssumption, LinkInit PROVE LinkInv
<1> USE DEF LinkInit
<1>1. LinkTypeOK
  <2>1. /\ boot \in 1 .. MaxBoots /\ number \in 0 .. SeqMod - 1
        /\ answers \in 0 .. MaxAnswers /\ idle \in 0 .. StallAfter + 1
        /\ age \in 0 .. LostAfter + 1 /\ since \in 0 .. LostAfter + 1
        /\ noise \in 0 .. MaxNoise
    BY DEF LinkAssumption
  <2>2. /\ sent \in Frames /\ frame \in Frames
        /\ snapshot \in Frames
    BY BlankIsFrame
  <2>3. fault \in BOOLEAN /\ opened \in BOOLEAN /\ refused \in BOOLEAN
    OBVIOUS
  <2>4. /\ pos \in 0 .. 5 /\ left \in 0 .. 2 /\ link_state \in {"OK", "STALE", "LOST"}
        /\ state \in {"SEEK_0", "SEEK_1", "HEADER", "PAYLOAD", "CRC"}
    OBVIOUS
  <2> HIDE DEF LinkInit
  <2> QED BY <2>1, <2>2, <2>3, <2>4 DEF LinkTypeOK
<1>2. FramesOfBoots /\ NumbersAhead /\ OldIsOld /\ NoneRefused
  BY DEF FramesOfBoots, NumbersAhead, OldIsOld, NoneRefused
<1> QED BY <1>1, <1>2 DEF LinkInv

(* What the dash's polls do to the snapshot: a frame is taken when its CRC *)
(* cell comes and all its cells before were seen, or none is.              *)
TakesOne == /\ frame = sent /\ pos = 5 /\ pos' = 0 /\ frame.kind = "state"
            /\ TakeState

LEMMA SnapshotMoves ==
  ASSUME LinkInv, PollEmpty \/ PollCell
  PROVE  Hold \/ TakesOne
<1>1. CASE PollEmpty
  BY <1>1 DEF PollEmpty
<1>2. CASE PollCell
  <2>1. pos \in 1 .. 5
    BY <1>2 DEF PollCell, NextCell, LinkInv, LinkTypeOK
  <2>2. Parts[pos] = "C" => pos = 5
    BY <2>1 DEF Parts
  <2>3. PICK seen \in Sights(Parts[pos]) :
          _feed_byte(sent, Parts[pos], seen)
    BY <1>2 DEF PollCell
  <2>4. pos = 5 => pos' = 0
    BY <1>2 DEF PollCell, NextCell
  <2> QED BY <2>2, <2>3, <2>4
          DEF _feed_byte, _finalize_frame, TakesOne
<1> QED BY <1>1, <1>2

LEMMA ParserTypes ==
  ASSUME LinkAssumption, LinkInv, PollCell
  PROVE  /\ state' \in {"SEEK_0", "SEEK_1", "HEADER", "PAYLOAD", "CRC"}
         /\ frame' \in Frames /\ left' \in 0 .. 2 /\ idle' = 0
         /\ state' = "PAYLOAD" => left' \in 1 .. 2
         /\ noise' \in 0 .. MaxNoise
<1> USE DEF LinkInv, LinkTypeOK
<1>1. PICK seen \in Sights(Parts[pos]) :
        /\ _feed_byte(sent, Parts[pos], seen)
        /\ noise' = IF seen = Parts[pos] THEN noise ELSE noise + 1
  BY DEF PollCell
<1>2. noise' \in 0 .. MaxNoise
  BY <1>1 DEF Sights, LinkAssumption
<1>3. /\ state' \in {"SEEK_0", "SEEK_1", "HEADER", "PAYLOAD", "CRC"}
      /\ frame' \in Frames /\ left' \in 0 .. 2 /\ idle' = 0
      /\ state' = "PAYLOAD" => left' \in 1 .. 2
  <2> DEFINE part == Parts[pos]
  <2> HIDE DEF part
  <2>1. CASE state = "SEEK_0" \/ state = "SEEK_1"
    BY <1>1, <2>1 DEF _feed_byte, Goto, part
  <2>2. CASE state = "HEADER" /\ Header(sent, part)
    BY <2>2, BlankIsFrame DEF Header, _reset
  <2>3. CASE state = "PAYLOAD"
    BY <1>1, <2>3, BlankIsFrame DEF _feed_byte, FramesOfBoots
  <2>4. CASE state = "CRC"
    BY <1>1, <2>4, BlankIsFrame DEF _feed_byte, _reset
  <2> QED BY <1>1, <2>1, <2>2, <2>3, <2>4 DEF _feed_byte, part
<1> QED BY <1>2, <1>3

LEMMA SnapshotTypes ==
  ASSUME LinkAssumption, LinkInv, Hold \/ TakesOne
  PROVE  /\ snapshot' \in Frames /\ age' \in 0 .. LostAfter + 1
         /\ refused' \in BOOLEAN
<1>1. /\ LostAfter \in Nat /\ snapshot \in Frames /\ frame \in Frames
      /\ age \in 0 .. LostAfter + 1 /\ refused \in BOOLEAN
  BY DEF LinkInv, LinkTypeOK, LinkAssumption
<1>2. CASE Hold
  <2>1. Current \in Frames
    BY <1>1, BlankIsFrame DEF Current
  <2> QED BY <1>1, <1>2, <2>1 DEF Hold
<1>3. CASE TakesOne
  <2>1. refused' \in BOOLEAN
    <3>1. refused' = (refused \/ Current.boot = frame.boot) \/ refused' = refused
      BY <1>3 DEF TakesOne, TakeState
    <3> QED BY <1>1, <3>1
  <2>2. snapshot' \in Frames /\ age' \in 0 .. LostAfter + 1
    BY <1>1, <1>3 DEF TakesOne, TakeState
  <2> QED BY <2>1, <2>2
<1> QED BY <1>2, <1>3

LEMMA LinkTypes ==
  ASSUME LinkAssumption, LinkInv, [LinkNext]_linkVars
  PROVE  LinkTypeOK'
<1> USE DEF LinkInv, LinkTypeOK, LinkAssumption, ecu, wire,
            parser, ingest
<1>1. CASE FaultRaised
  BY <1>1 DEF FaultRaised
<1>2. ASSUME NEW lost \in BOOLEAN, SendTelemetry(lost) PROVE LinkTypeOK'
  <2>1. number' \in 0 .. SeqMod - 1
    <3>1. number' = (number + 1) % SeqMod /\ number + 1 \in Int
      BY <1>2 DEF SendTelemetry
    <3> QED BY <3>1, Euclid
  <2>2. sent' \in Frames /\ pos' \in 0 .. 5 /\ opened' = TRUE
    BY <1>2 DEF SendTelemetry, Frames
  <2>3. UNCHANGED <<boot, fault, answers, state, frame, left, idle, snapshot,
                    age, refused, link_state, since, noise>>
    BY <1>2 DEF SendTelemetry
  <2> QED BY <2>1, <2>2, <2>3
<1>3. CASE SendResponse
  <2>1. sent' \in Frames
    <3>1. sent' = [kind |-> "cfg", boot |-> boot, seq |-> 0, fault |-> FALSE]
      BY <1>3 DEF SendResponse, Blank
    <3>2. boot \in 0 .. MaxBoots /\ 0 \in 0 .. SeqMod - 1
      OBVIOUS
    <3> QED BY <3>1, <3>2 DEF Frames
  <2> QED BY <1>3, <2>1 DEF SendResponse
<1>4. CASE Restart
  <2>1. /\ boot' \in 1 .. MaxBoots /\ fault' = FALSE /\ number' \in 0 .. SeqMod - 1
        /\ pos' \in 0 .. 5 /\ since' \in 0 .. LostAfter + 1
    BY <1>4 DEF Restart
  <2>2. sent' \in Frames
    BY <1>4, BlankIsFrame DEF Restart
  <2> QED BY <1>4, <2>1, <2>2 DEF Restart
<1>5. CASE PollEmpty \/ PollCell
  <2>1. /\ snapshot' \in Frames /\ age' \in 0 .. LostAfter + 1
        /\ refused' \in BOOLEAN
    BY <1>5, SnapshotMoves, SnapshotTypes
  <2>2. link_state' \in {"OK", "STALE", "LOST"}
    BY <1>5 DEF PollEmpty, PollCell, update_link_state
  <2>3. CASE PollEmpty
    BY <2>1, <2>2, <2>3, BlankIsFrame DEF PollEmpty, _reset
  <2>4. CASE PollCell
    <3>1. pos' \in 0 .. 5 /\ sent' \in Frames
      BY <2>4, BlankIsFrame DEF PollCell, NextCell
    <3>2. UNCHANGED <<boot, fault, number, opened, answers, since>>
      BY <2>4 DEF PollCell
    <3> QED BY <2>1, <2>2, <2>4, <3>1, <3>2, ParserTypes
  <2> QED BY <1>5, <2>3, <2>4
<1>6. CASE DemoLoop
  BY <1>6 DEF DemoLoop, update_link_state
<1>7. CASE CellLost
  BY <1>7, BlankIsFrame DEF CellLost, NextCell
<1>8. CASE Tick
  <2>1. /\ age' \in 0 .. LostAfter + 1 /\ since' \in 0 .. LostAfter + 1
        /\ idle' \in 0 .. StallAfter + 1
    BY <1>8 DEF Tick, Count
  <2>2. noise' \in 0 .. MaxNoise /\ opened' = FALSE
    BY <1>8 DEF Tick
  <2> QED BY <1>8, <2>1, <2>2 DEF Tick
<1>9. CASE UNCHANGED linkVars
  BY <1>9 DEF linkVars
<1> QED BY <1>1, <1>2, <1>3, <1>4, <1>5, <1>6, <1>7, <1>8, <1>9 DEF LinkNext

-----------------------------------------------------------------------------
(* The frame in hand is newer than the snapshot it is compared with, when  *)
(* both are of one start.                                                  *)
LEMMA TakenIsNewer ==
  ASSUME LinkAssumption, LinkInv, TakesOne, Current # Blank,
         Current.boot = frame.boot
  PROVE  seq_newer_u16(frame.seq, Current.seq)
<1>1. /\ Current = snapshot /\ age <= LostAfter /\ snapshot # Blank
  BY DEF Current, LinkInv, LinkTypeOK, LinkAssumption
<1>2. /\ snapshot.boot = boot /\ number = (frame.seq + 1) % SeqMod
      /\ pos > 0 /\ sent.kind = "state"
  BY <1>1 DEF TakesOne, LinkInv, FramesOfBoots
<1>3. PICK d \in Nat : Behind(d)
  BY <1>1, <1>2 DEF LinkInv, NumbersAhead
<1>4. /\ SeqMod \in Nat \ {0} /\ frame.seq \in 0 .. SeqMod - 1
      /\ snapshot.seq \in 0 .. SeqMod - 1 /\ age \in Nat /\ LostAfter \in Nat
  BY DEF LinkInv, LinkTypeOK, Frames, LinkAssumption
<1>5. /\ d - 1 \in 1 .. SeqMod \div 2 - 1 /\ SeqMod \div 2 < SeqMod
  BY <1>1, <1>2, <1>3, <1>4 DEF Behind, LinkAssumption
<1>6. PICK k \in Int : (frame.seq + 1) - (snapshot.seq + d) = SeqMod * k
  <2>1. (snapshot.seq + d) % SeqMod = (frame.seq + 1) % SeqMod
    BY <1>2, <1>3 DEF Behind
  <2>2. snapshot.seq + d \in Int /\ frame.seq + 1 \in Int
    BY <1>4
  <2> QED BY <1>4, <2>1, <2>2, SameResidue
<1>7. (frame.seq - snapshot.seq) % SeqMod = d - 1
  <2>1. frame.seq - snapshot.seq = SeqMod * k + (d - 1)
    BY <1>4, <1>6
  <2>2. frame.seq - snapshot.seq \in Int /\ d - 1 \in 0 .. SeqMod - 1
    BY <1>4, <1>5
  <2> QED BY <1>4, <2>1, <2>2, ResidueIs
<1> QED BY <1>1, <1>5, <1>7 DEF seq_newer_u16

(* A poll keeps the invariant: what it takes is the frame that travels.    *)
LEMMA PollKeeps ==
  ASSUME LinkAssumption, LinkInv, PollEmpty \/ PollCell
  PROVE  FramesOfBoots' /\ NumbersAhead' /\ OldIsOld' /\ NoneRefused'
<1>1. UNCHANGED <<boot, number, opened, since>>
  BY DEF PollEmpty, PollCell, ecu, wire
<1>2. /\ pos' > 0 => pos > 0 /\ sent' = sent
      /\ state' = "PAYLOAD" => left' \in 1 .. 2
  <2>1. CASE PollEmpty
    BY <2>1 DEF PollEmpty, wire, parser, _reset, LinkInv, FramesOfBoots
  <2>2. CASE PollCell
    BY <2>2, ParserTypes DEF PollCell, NextCell
  <2> QED BY <2>1, <2>2
<1>3. Hold \/ TakesOne
  BY SnapshotMoves
<1>4. ASSUME refused' = refused,
             snapshot' # Blank => snapshot' = snapshot /\ age' = age
      PROVE  FramesOfBoots' /\ NumbersAhead' /\ OldIsOld' /\ NoneRefused'
  <2>1. FramesOfBoots' /\ OldIsOld' /\ NoneRefused'
    BY <1>1, <1>2, <1>4
       DEF LinkInv, FramesOfBoots, OldIsOld, NoneRefused, Blank
  <2>2. \A d \in Nat : snapshot' # Blank /\ Behind(d) => Behind(d)'
    BY <1>1, <1>2, <1>4 DEF Behind
  <2>3. NumbersAhead'
    BY <1>1, <1>4, <2>2 DEF LinkInv, NumbersAhead, Blank
  <2> QED BY <2>1, <2>3
<1>5. CASE Hold
  BY <1>4, <1>5 DEF Hold, Current
<1>6. CASE TakesOne /\ ~(snapshot' = frame /\ age' = 0 /\ refused' = refused)
  <2>1. refused' = refused /\ snapshot' = snapshot /\ age' = age
    BY <1>6, TakenIsNewer DEF TakesOne, TakeState, LinkInv, LinkTypeOK
  <2> QED BY <1>4, <2>1
<1>7. CASE TakesOne /\ snapshot' = frame /\ age' = 0 /\ refused' = refused
  <2>1. /\ frame.kind = "state" /\ frame.boot = boot /\ pos' = 0
        /\ number = (frame.seq + 1) % SeqMod
    BY <1>7 DEF TakesOne, LinkInv, FramesOfBoots
  <2>2. Behind(1)'
    BY <1>1, <1>7, <2>1 DEF Behind
  <2>3. boot \in Nat
    BY DEF LinkInv, LinkTypeOK
  <2>4. NumbersAhead'
    BY <2>2 DEF NumbersAhead
  <2>5. FramesOfBoots' /\ OldIsOld' /\ NoneRefused'
    BY <1>1, <1>2, <1>7, <2>1, <2>3
       DEF LinkInv, FramesOfBoots, OldIsOld, NoneRefused
  <2> QED BY <2>4, <2>5
<1> QED BY <1>3, <1>5, <1>6, <1>7

(* A frame begun uses the next number, once a tick.                        *)
LEMMA SendKeeps ==
  ASSUME LinkAssumption, LinkInv, NEW lost \in BOOLEAN,
         SendTelemetry(lost)
  PROVE  FramesOfBoots' /\ NumbersAhead' /\ OldIsOld' /\ NoneRefused'
<1>1. /\ pos = 0 /\ opened = FALSE /\ opened' = TRUE
      /\ number' = (number + 1) % SeqMod
      /\ pos' > 0 => /\ sent'.boot = boot /\ sent'.seq = number
      /\ UNCHANGED <<boot, snapshot, age, state, left, since, refused>>
  BY DEF SendTelemetry, parser, ingest, LinkInv, LinkTypeOK
<1>2. FramesOfBoots' /\ OldIsOld' /\ NoneRefused'
  BY <1>1 DEF LinkInv, FramesOfBoots, OldIsOld, NoneRefused, Blank
<1>3. ASSUME NEW d \in Nat, Behind(d) PROVE Behind(d + 1)'
  <2>1. /\ SeqMod \in Nat \ {0} /\ snapshot.seq \in Int /\ age \in Nat
        /\ number \in Int
    BY DEF LinkInv, LinkTypeOK, Frames, LinkAssumption
  <2>2. (snapshot.seq + (d + 1)) % SeqMod = (number + 1) % SeqMod
    <3> DEFINE x == snapshot.seq + d
    <3>1. x \in Int /\ number = x % SeqMod
      BY <1>3, <2>1 DEF Behind
    <3>2. (x + 1) % SeqMod = ((x % SeqMod) + 1) % SeqMod
      BY <2>1, <3>1, ResidueOfNext
    <3>3. snapshot.seq + (d + 1) = x + 1
      BY <2>1
    <3> HIDE DEF x
    <3> QED BY <3>1, <3>2, <3>3
  <2>3. 1 <= d + 1 /\ d + 1 <= 1 + age + 1 /\ d + 1 >= 2
    BY <1>1, <1>3, <2>1 DEF Behind
  <2> QED BY <1>1, <2>2, <2>3 DEF Behind
<1>4. NumbersAhead'
  <2>1. \A d \in Nat : d + 1 \in Nat
    OBVIOUS
  <2> QED BY <1>1, <1>3, <2>1 DEF LinkInv, NumbersAhead, Blank
<1> QED BY <1>2, <1>4

(* A tick makes the snapshot older, and allows the next number.            *)
LEMMA TickKeeps ==
  ASSUME LinkAssumption, LinkInv, Tick
  PROVE  FramesOfBoots' /\ NumbersAhead' /\ OldIsOld' /\ NoneRefused'
<1>1. /\ UNCHANGED <<boot, number, sent, pos, state, left, snapshot, refused>>
      /\ opened' = FALSE
      /\ age' = IF snapshot # Blank THEN Count(age, LostAfter) ELSE age
      /\ since' = Count(since, LostAfter)
  BY DEF Tick, ecu
<1>2. FramesOfBoots' /\ NoneRefused'
  BY <1>1 DEF LinkInv, FramesOfBoots, NoneRefused, Blank
<1>3. LostAfter \in Nat /\ age \in 0 .. LostAfter + 1 /\ since \in 0 .. LostAfter + 1
  BY DEF LinkInv, LinkTypeOK, LinkAssumption
<1>4. OldIsOld'
  BY <1>1, <1>3 DEF LinkInv, OldIsOld, Count, Blank
<1>5. ASSUME snapshot # Blank, age' <= LostAfter, NEW d \in Nat, Behind(d)
      PROVE  Behind(d)'
  BY <1>1, <1>3, <1>5 DEF Behind, Count
<1>6. NumbersAhead'
  BY <1>1, <1>3, <1>5 DEF LinkInv, NumbersAhead, Blank, Count
<1> QED BY <1>2, <1>4, <1>6

LEMMA OthersKeep ==
  ASSUME LinkAssumption, LinkInv,
         \/ FaultRaised \/ SendResponse \/ DemoLoop
         \/ CellLost \/ UNCHANGED linkVars
  PROVE  FramesOfBoots' /\ NumbersAhead' /\ OldIsOld' /\ NoneRefused'
<1>1. /\ UNCHANGED <<boot, number, opened, snapshot, age, since, refused, state, left>>
      /\ pos' > 0 => sent'.boot = boot
      /\ pos' > 0 /\ sent'.kind = "state" => pos > 0 /\ sent' = sent
  <2>1. CASE SendResponse
    <3>1. sent' = [kind |-> "cfg", boot |-> boot, seq |-> 0, fault |-> FALSE]
      BY <2>1 DEF SendResponse, Blank
    <3> QED BY <2>1, <3>1 DEF SendResponse, ecu, parser, ingest
  <2>2. CASE CellLost
    BY <2>2 DEF CellLost, NextCell, ecu, parser, ingest,
       LinkInv, FramesOfBoots
  <2>3. CASE FaultRaised \/ DemoLoop \/ UNCHANGED linkVars
    BY <2>3 DEF FaultRaised, DemoLoop, linkVars, ecu, wire,
       parser, ingest, LinkInv, FramesOfBoots
  <2> QED BY <2>1, <2>2, <2>3
<1>2. FramesOfBoots' /\ OldIsOld' /\ NoneRefused'
  BY <1>1 DEF LinkInv, FramesOfBoots, OldIsOld, NoneRefused, Blank
<1>3. \A d \in Nat : Behind(d) => Behind(d)'
  BY <1>1 DEF Behind
<1> QED BY <1>1, <1>2, <1>3 DEF LinkInv, NumbersAhead, Blank

LEMMA RestartKeeps ==
  ASSUME LinkAssumption, LinkInv, Restart
  PROVE  FramesOfBoots' /\ NumbersAhead' /\ OldIsOld' /\ NoneRefused'
<1>1. /\ boot' = boot + 1 /\ pos' = 0 /\ since' = 0 /\ boot \in Nat
      /\ UNCHANGED <<snapshot, age, refused, state, left>>
      /\ snapshot # Blank => snapshot.boot \in Nat /\ snapshot.boot <= boot
      /\ age >= 0
  BY DEF Restart, parser, ingest, LinkInv, LinkTypeOK, FramesOfBoots,
     Frames
<1> QED BY <1>1 DEF LinkInv, FramesOfBoots, NumbersAhead, OldIsOld, NoneRefused,
        Blank

LEMMA LinkStep ==
  ASSUME LinkAssumption, LinkInv, [LinkNext]_linkVars
  PROVE  LinkInv'
BY LinkTypes, PollKeeps, SendKeeps, TickKeeps, OthersKeep, RestartKeeps
   DEF LinkNext, LinkInv

LEMMA LinkInvariant == LinkSpec => []LinkInv
BY LinkAssumption, LinkBegins, LinkStep, PTL DEF LinkSpec

(* Cells, parser, snapshot and link state keep their types, whatever is    *)
(* lost or misread: LinkTypeOK.                                            *)
THEOREM LinkTypeCorrect == LinkSpec => []LinkTypeOK
<1>1. LinkInv => LinkTypeOK
  BY DEF LinkInv
<1> QED BY <1>1, LinkInvariant, PTL

(* TelemetryIngest refuses no frame of the ECU that runs as old, however   *)
(* many frames were missed and wherever the numbers wrap.                  *)
THEOREM NoFrameIsRefused == LinkSpec => []NoneRefused
<1>1. LinkInv => NoneRefused
  BY DEF LinkInv
<1> QED BY <1>1, LinkInvariant, PTL

(* Data of an earlier start of the ECU is off the display once             *)
(* LINK_LOST_MS have passed since the restart.                             *)
THEOREM OldDataGoes == LinkSpec => OldBootGone
<1>1. ASSUME LinkInv, LinkInv', PollEmpty \/ PollCell \/ DemoLoop,
             Shown'.kind = "state", since > LostAfter
      PROVE  Shown'.boot = boot
  <2>1. /\ Shown' = snapshot' /\ link_state' # "LOST"
        /\ UNCHANGED <<boot, since>>
    BY <1>1 DEF Shown, Blank, PollEmpty, PollCell, DemoLoop,
       ecu
  <2>2. snapshot' # Blank /\ ~(age' > LostAfter)
    BY <1>1, <2>1 DEF PollEmpty, PollCell, DemoLoop,
       update_link_state
  <2>3. (snapshot # Blank /\ snapshot.boot # boot => age >= since)'
    BY <1>1 DEF LinkInv, OldIsOld
  <2>4. (age \in Nat /\ since \in Nat)' /\ LostAfter \in Nat
    BY <1>1, LinkAssumption DEF LinkInv, LinkTypeOK, LinkAssumption
  <2> QED BY <1>1, <2>1, <2>2, <2>3, <2>4 DEF Blank
<1>2. LinkInv /\ LinkInv' /\ [LinkNext]_linkVars =>
        [/\ PollEmpty \/ PollCell \/ DemoLoop
         /\ Shown'.kind = "state" /\ since > LostAfter
         => Shown'.boot = boot]_linkVars
  BY <1>1
<1> QED BY <1>2, LinkInvariant, PTL DEF LinkSpec, OldBootGone
=============================================================================
