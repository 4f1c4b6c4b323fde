----------------------------- MODULE ReadProofs -----------------------------
(***************************************************************************)
(* What a read returns.  A register's value is what the last write to it   *)
(* has stored, of the writes answered since the device was last deleted;   *)
(* and a request is answered after all that were accepted before it, so    *)
(* these are the writes the library made before the read.  And when a read *)
(* succeeds: a datapoint that was announced is set up when its             *)
(* announcement is served, and stays so until its device is deleted.       *)
(***************************************************************************)
EXTENDS RequestProofs

(* The results given so far. *)
Given == {answered[k] : k \in DOMAIN answered}

(* Result a, of a request in log L, is that of a write stored in register  *)
(* r of device d; or that of a deletion of d.                              *)
Sets(L, a, d, r) ==
  /\ L[a.id].action = "IdiaDpwrite" /\ L[a.id].dev = d /\ Address[L[a.id].dp] = r
  /\ a.err # IErr_Failure

Empties(L, a, d) ==
  L[a.id].action = "IdiaDelete" /\ L[a.id].dev = d /\ a.err = IErr_Success

(* Of the results R, those of the writes to the register that are earlier  *)
(* than request i and not followed by a deletion up to i.                  *)
Until(R, L, d, r, i) ==
  {a.id : a \in {w \in R : /\ w.id < i /\ Sets(L, w, d, r)
                           /\ \A x \in R : Empties(L, x, d) => x.id < w.id \/ i < x.id}}

LEMMA UntilMember ==
  ASSUME NEW R, NEW L, NEW d, NEW r, NEW i, NEW j
  PROVE  j \in Until(R, L, d, r, i) <=>
           \E w \in R : /\ w.id = j /\ w.id < i /\ Sets(L, w, d, r)
                        /\ \A x \in R : Empties(L, x, d) => x.id < w.id \/ i < x.id
BY DEF Until

(* Later requests do not change what is known of the earlier ones.         *)
LEMMA UntilOfLongerLog ==
  ASSUME NEW R, NEW L, NEW M, \A a \in R : M[a.id] = L[a.id], NEW d, NEW r, NEW i
  PROVE  Until(R, M, d, r, i) = Until(R, L, d, r, i)
<1>1. \A a \in R : (Sets(M, a, d, r) <=> Sets(L, a, d, r)) /\ (Empties(M, a, d) <=> Empties(L, a, d))
  BY DEF Sets, Empties
<1>2. \A j : j \in Until(R, M, d, r, i) <=> j \in Until(R, L, d, r, i)
  BY <1>1, UntilMember
<1>. QED BY <1>2

(* Results of no interest, and results of requests later than i.           *)
LEMMA UntilOfOther ==
  ASSUME NEW R, NEW L, NEW d, NEW r, NEW i, NEW n,
         (~Sets(L, n, d, r) \/ ~(n.id < i)) /\ (~Empties(L, n, d) \/ i < n.id)
  PROVE  Until(R \cup {n}, L, d, r, i) = Until(R, L, d, r, i)
<1>1. \A j : j \in Until(R \cup {n}, L, d, r, i) <=> j \in Until(R, L, d, r, i)
  BY UntilMember
<1>. QED BY <1>1

(* A write joins those before it.                                          *)
LEMMA UntilOfWrite ==
  ASSUME NEW R, NEW L, NEW d, NEW r, NEW i, NEW n, n.id < i, Sets(L, n, d, r),
         \A a \in R : a.id < n.id
  PROVE  Until(R \cup {n}, L, d, r, i) = Until(R, L, d, r, i) \cup {n.id}
<1>1. ~Empties(L, n, d)
  BY DEF Sets, Empties
<1>2. \A j : j \in Until(R \cup {n}, L, d, r, i) <=> j \in Until(R, L, d, r, i) \/ j = n.id
  BY <1>1, UntilMember
<1>. QED BY <1>2

(* A deletion leaves none.                                                 *)
LEMMA UntilOfDelete ==
  ASSUME NEW R, NEW L, NEW d, NEW r, NEW i \in Nat, NEW n, n.id \in Nat, n.id < i,
         Empties(L, n, d), \A a \in R : a.id \in Nat /\ a.id < n.id
  PROVE  Until(R \cup {n}, L, d, r, i) = {}
<1>1. ~Sets(L, n, d, r)
  BY DEF Sets, Empties
<1>2. \A a \in R : ~(n.id < a.id \/ i < n.id)
  BY SMT
<1>3. \A j : j \notin Until(R \cup {n}, L, d, r, i)
  BY <1>1, <1>2, UntilMember
<1>. QED BY <1>3

(* All results are earlier than i, so it does not matter how much later i is. *)
LEMMA UntilOfLater ==
  ASSUME NEW R, NEW L, NEW d, NEW r, NEW i \in Nat, NEW k \in Nat,
         \A a \in R : a.id \in Nat /\ a.id < i /\ a.id < k
  PROVE  Until(R, L, d, r, i) = Until(R, L, d, r, k)
<1>1. \A a \in R : a.id < i /\ a.id < k /\ ~(i < a.id) /\ ~(k < a.id)
  BY SMT
<1>2. \A j : j \in Until(R, L, d, r, i) <=> j \in Until(R, L, d, r, k)
  BY <1>1, UntilMember
<1>. QED BY <1>2

LEMMA UntilIsEarlier ==
  ASSUME NEW R, NEW L, NEW d, NEW r, NEW i, NEW j \in Until(R, L, d, r, i)
  PROVE  \E a \in R : a.id = j
BY UntilMember

-----------------------------------------------------------------------------
(* The writes that register r of device d may still show: all results are  *)
(* of requests up to MaxReqs.                                              *)
Written(d, r) == Until(Given, log, d, r, MaxReqs + 1)

(* The last of them, or the default. *)
IsLast(v, S) == (S = {} /\ v = DefVal) \/ (v \in S /\ \A l \in S : l <= v)

(* What the device's block holds, NULL when it has none. *)
Value(d, r) ==
  IF idiDevData[d] = NULL THEN NULL ELSE pDevDpValVector[idiDevData[d]][r]

(* A new block has no values. *)
Blank == \A s \in Sto \ alloc : pDevDpValVector[s] = NoValues

(* A register that has a value has that of the last write, and one that    *)
(* has been written has a value.                                           *)
ValuesInv ==
  \A d \in Devs, r \in Regs :
    IF Value(d, r) = NULL THEN Written(d, r) = {} ELSE IsLast(Value(d, r), Written(d, r))

Multiplier(p) ==
  IF p \in StringDps \/ TestMultiplier[p] \in {NULL, BAD, 0} THEN 1 ELSE TestMultiplier[p]

ReadAt(a) == log[a.id].action = "IdiaDpread" /\ a.err = IErr_Success

(* A read that succeeded gave the last write before it.                    *)
ReadsInv ==
  \A a \in Given : ReadAt(a) =>
    /\ IsLast(a.val, Until(Given, log, log[a.id].dev, Address[log[a.id].dp], a.id))
    /\ a.mult = Multiplier(log[a.id].dp)

ReadInv == Blank /\ ValuesInv /\ ReadsInv

(* What is known of the queue, the results and the slots before each step. *)
KnownInv == DriverInv /\ OrderInv /\ DpSlotsOwn

LEMMA GivenFacts ==
  ASSUME KnownInv
  PROVE  /\ Len(log) \in Nat /\ Ids = 1..Len(log) /\ Len(log) <= MaxReqs
         /\ \A i \in Ids : i \in Nat /\ i < MaxReqs + 1 /\ log[i] \in RequestType
         /\ \A a \in Given : /\ a.id \in Ids /\ a.id \in Nat /\ a.id < MaxReqs + 1
                             /\ cur # 0 => a.id < cur
<1>1. /\ Len(log) \in Nat /\ Ids = 1..Len(log) /\ Len(log) <= MaxReqs
      /\ \A i \in Ids : log[i] \in RequestType
  BY DEF KnownInv, DriverInv, QueueTypeOK, Ids
<1>2. \A i \in Ids : i \in Nat /\ i < MaxReqs + 1
  BY <1>1, BoundAssumption
<1>3. \A k \in DOMAIN answered : answered[k] \in AnswerType /\ (cur # 0 => answered[k].id < cur)
  BY DEF KnownInv, OrderInv
<1>4. \A a \in Given : a.id \in Ids /\ (cur # 0 => a.id < cur)
  BY <1>3 DEF Given, AnswerType
<1>. QED BY <1>1, <1>2, <1>4

LEMMA GivenGrows ==
  ASSUME OrderInv, NEW err, NEW val, NEW mult, Answer(err, val, mult)
  PROVE  Given' = Given \cup {[id |-> cur, err |-> err, val |-> val, mult |-> mult]}
<1>. DEFINE a == [id |-> cur, err |-> err, val |-> val, mult |-> mult]
<1>1. answered' = Append(answered, a) /\ answered \in Seq(AnswerType)
  BY DEF Answer, OrderInv
<1>2. /\ DOMAIN answered' = DOMAIN answered \cup {Len(answered) + 1}
      /\ answered'[Len(answered) + 1] = a
      /\ \A k \in DOMAIN answered : answered'[k] = answered[k]
  BY <1>1
<1>. HIDE DEF a
<1>. QED BY <1>2 DEF Given, a

(* The definitions of the property in these terms.                         *)
LEMMA WrittenBeforeIs ==
  ASSUME KnownInv, NEW i \in Ids
  PROVE  WrittenBefore(i) = Until(Given, log, log[i].dev, Address[log[i].dp], i)
<1>1. /\ i \in Nat /\ \A a \in Given : a.id \in Nat /\ a.id > 0
  BY GivenFacts
<1>. DEFINE d == log[i].dev
            r == Address[log[i].dp]
<1>2. ASSUME NEW j \in Nat
      PROVE  DeletedBetween(j, i) <=> \E x \in Given : Empties(log, x, d) /\ j <= x.id /\ x.id <= i
  <2>1. \A x \in Given : x.id \in j..i <=> j <= x.id /\ x.id <= i
    BY <1>1
  <2>2. DeletedBetween(j, i) <=> \E x \in Given : Empties(log, x, d) /\ x.id \in j..i
    BY DEF DeletedBetween, Given, Empties
  <2>. QED BY <2>1, <2>2
<1>3. ASSUME NEW j \in Nat
      PROVE  DeletedBetween(j, i) <=> ~\A x \in Given : Empties(log, x, d) => x.id < j \/ i < x.id
  <2>1. \A x \in Given : (j <= x.id /\ x.id <= i) <=> ~(x.id < j \/ i < x.id)
    BY <1>1
  <2>. QED BY <1>2, <2>1
<1>4. AnsweredIds = {w.id : w \in Given}
  BY DEF AnsweredIds, Given
<1>5. \A w \in Given : w.id \in 1..(i - 1) <=> w.id < i
  BY <1>1
<1>6. ASSUME NEW j
      PROVE  j \in WrittenBefore(i) <=>
               \E w \in Given : /\ w.id = j /\ w.id < i /\ Sets(log, w, d, r)
                                /\ ~DeletedBetween(j, i)
  <2>1. (\E k \in DOMAIN answered : answered[k].id = j /\ answered[k].err # IErr_Failure)
           <=> \E w \in Given : w.id = j /\ w.err # IErr_Failure
    BY DEF Given
  <2>2. j \in AnsweredIds \cap 1..(i - 1) <=> \E w \in Given : w.id = j /\ w.id < i
    BY <1>4, <1>5
  <2>. QED BY <2>1, <2>2 DEF WrittenBefore, Sets
<1>7. \A j : j \in WrittenBefore(i) <=> j \in Until(Given, log, d, r, i)
  BY <1>1, <1>3, <1>6, UntilMember
<1>. QED BY <1>7

(* The property follows.                                                   *)
LEMMA ReadInvGives == KnownInv /\ ReadInv => ReadReturnsLastWrite
<1>. SUFFICES ASSUME KnownInv, ReadInv, NEW k \in DOMAIN answered,
                     log[answered[k].id].action = "IdiaDpread", answered[k].err = IErr_Success
              PROVE  /\ answered[k].val = LastWrite(answered[k].id)
                     /\ answered[k].mult = Multiplier(log[answered[k].id].dp)
  BY DEF ReadReturnsLastWrite, Multiplier
<1>. DEFINE a == answered[k]
<1>1. a \in Given /\ a.id \in Ids
  BY GivenFacts DEF Given
<1>2. IsLast(a.val, WrittenBefore(a.id)) /\ a.mult = Multiplier(log[a.id].dp)
  BY <1>1, WrittenBeforeIs DEF ReadInv, ReadsInv, ReadAt
<1>3. WrittenBefore(a.id) \subseteq Nat
  <2>1. \A j \in WrittenBefore(a.id) : \E w \in Given : w.id = j
    BY <1>1, WrittenBeforeIs, UntilIsEarlier
  <2>. QED BY <2>1, GivenFacts
<1>4. a.val = LastWrite(a.id)
  <2>. DEFINE S == WrittenBefore(a.id)
  <2>1. CASE S = {}
    BY <1>2, <2>1 DEF IsLast, LastWrite
  <2>2. CASE S # {}
    <3>1. a.val \in S /\ \A l \in S : l <= a.val
      BY <1>2, <2>2 DEF IsLast
    <3>2. \A j \in S : (\A l \in S : l <= j) => j = a.val
      BY <1>3, <3>1
    <3>3. LastWrite(a.id) = CHOOSE j \in S : \A l \in S : l <= j
      BY <2>2 DEF LastWrite
    <3>. HIDE DEF S
    <3>. QED BY <3>1, <3>2, <3>3
  <2>. QED BY <2>1, <2>2
<1>. QED BY <1>2, <1>4

-----------------------------------------------------------------------------
(* What the operations of the storage do to the values.                    *)
SameValues == \A d \in Devs, r \in Regs : Value(d, r)' = Value(d, r)

LEMMA ValueAt ==
  ASSUME NEW d, NEW r
  PROVE  /\ idiDevData[d] = NULL => Value(d, r) = NULL
         /\ idiDevData[d] # NULL => Value(d, r) = pDevDpValVector[idiDevData[d]][r]
BY DEF Value

LEMMA QuietKeepsValues ==
  ASSUME Blank, UNCHANGED <<idiDevData, pDevDpValVector>>, alloc \subseteq alloc'
  PROVE  SameValues /\ Blank'
BY DEF SameValues, Value, Blank

LEMMA CreateKeepsValues ==
  ASSUME StoreInv, Blank, NEW d \in Devs, NEW err, Create(d, err)
  PROVE  SameValues /\ Blank'
<1>1. CASE UNCHANGED storeVars
  BY <1>1, QuietKeepsValues DEF storeVars, blockVars
<1>2. CASE SetNoMemory
  BY <1>2, QuietKeepsValues DEF SetNoMemory, blockVars
<1>3. ASSUME NEW s \in Sto \ alloc, idiDevData[d] = NULL, SetStored(d, s)
      PROVE  SameValues /\ Blank'
  <2>1. /\ idiDevData' = [idiDevData EXCEPT ![d] = s] /\ idiDevData \in [Devs -> Sto \cup {NULL}]
        /\ pDevDpValVector' = pDevDpValVector /\ alloc \subseteq alloc'
    BY <1>3 DEF SetStored, StoreInv, StoreTypeOK
  <2>2. \A r \in Regs : pDevDpValVector[s][r] = NULL
    BY DEF Blank, NoValues
  <2>3. s # NULL
    BY NULLAssumption
  <2>. QED BY <1>3, <2>1, <2>2, <2>3 DEF SameValues, Value, Blank
<1>. QED BY <1>1, <1>2, <1>3 DEF Create, DevSetCustomIdiDevData, SetRefused

(* A deletion that succeeds takes the device's values and no other's.      *)
LEMMA DeleteEmpties ==
  ASSUME StoreInv, Blank, NEW d \in Devs, NEW err, Delete(d, err)
  PROVE  /\ Blank'
         /\ err # IErr_Success => SameValues
         /\ err = IErr_Success =>
              /\ \A r \in Regs : Value(d, r)' = NULL
              /\ \A e \in Devs \ {d}, r \in Regs : Value(e, r)' = Value(e, r)
<1>1. CASE UNCHANGED storeVars /\ err = IErr_Failure
  BY <1>1, QuietKeepsValues DEF storeVars, blockVars, IErr_Success, IErr_Failure
<1>2. CASE err = IErr_Success /\ idiDevData[d] \in Walked /\ RemoveFound(d, idiDevData[d])
  <2>. DEFINE s == idiDevData[d]
  <2>1. s \in Sto /\ \A e \in Devs \ {d} : idiDevData[e] # s
    BY <1>2, NULLAssumption DEF Walked, StoreInv, StorageOwned, Stored
  <2>2. /\ \A e \in Devs \ {d} : idiDevData'[e] = idiDevData[e]
        /\ idiDevData'[d] = NULL /\ alloc' = alloc \ {s}
        /\ pDevDpValVector'[s] = NoValues
        /\ \A t \in Sto \ {s} : pDevDpValVector'[t] = pDevDpValVector[t]
    BY <1>2, <2>1 DEF RemoveFound, StoreInv, StoreTypeOK
  <2>3. \A e \in Devs : idiDevData[e] \in Sto \cup {NULL}
    BY DEF StoreInv, StoreTypeOK
  <2>. HIDE DEF s
  <2>4. Blank'
    BY <2>2 DEF Blank
  <2>. QED BY <1>2, <2>1, <2>2, <2>3, <2>4 DEF Value
<1>. QED BY <1>1, <1>2 DEF Delete, DevRemoveCustomIdiDevData

(* A datapoint's register gets its default if it has no value.             *)
Filled(d, r) == Value(d, r)' = Value(d, r) \/ (Value(d, r) = NULL /\ Value(d, r)' = DefVal)

LEMMA DpCreateFills ==
  ASSUME StoreInv, Blank, NEW d \in Devs, NEW p \in Dps, NEW err, DpCreate(d, p, err)
  PROVE  Blank' /\ \A e \in Devs, r \in Regs : Filled(e, r)
<1>1. CASE UNCHANGED storeVars
  BY <1>1, QuietKeepsValues DEF storeVars, blockVars, SameValues, Filled
<1>2. CASE MayBind(d, p) /\ BindDp(d, p)
  <2>. DEFINE s == idiDevData[d]
              n == Address[p]
  <2>1. d \in Stored /\ s \in alloc /\ s \in Sto /\ idiDevData' = idiDevData /\ alloc' = alloc
    BY <1>2 DEF MayBind, BindDp, StoreInv, StoreTypeOK, StorageOwned, Stored
  <2>2. \A e \in Devs \ {d} : idiDevData[e] # s
    BY <2>1 DEF StoreInv, StorageOwned, Stored
  <2>3. pDevDpValVector \in [Sto -> [Regs -> Int \cup {NULL}]]
    BY DEF StoreInv, StoreTypeOK
  <2>4. /\ \A t \in Sto \ {s} : pDevDpValVector'[t] = pDevDpValVector[t]
        /\ \A r \in Regs : \/ pDevDpValVector'[s][r] = pDevDpValVector[s][r]
                           \/ pDevDpValVector[s][r] = NULL /\ pDevDpValVector'[s][r] = DefVal
    BY <1>2, <2>1, <2>3 DEF BindDp
  <2>5. \A e \in Devs : idiDevData[e] \in Sto \cup {NULL}
    BY DEF StoreInv, StoreTypeOK
  <2>. HIDE DEF s
  <2>6. Blank'
    BY <2>1, <2>4 DEF Blank
  <2>7. ASSUME NEW e \in Devs, NEW r \in Regs PROVE Filled(e, r)
    <3>1. CASE e = d
      BY <2>1, <2>4, <3>1 DEF Filled, Value, s
    <3>2. CASE e # d
      BY <2>1, <2>2, <2>4, <2>5, <3>2 DEF Filled, Value
    <3>. QED BY <3>1, <3>2
  <2>. QED BY <2>6, <2>7
<1>. QED BY <1>1, <1>2 DEF DpCreate, IdiDpProcessCustomColum

(* A datapoint that can be used lies on its own register.                  *)
LEMMA UsableDatapoint ==
  ASSUME KnownInv, NEW d \in Devs, NEW p \in Dps, Usable(d, p)
  PROVE  /\ idiDevData[d] \in alloc /\ idiDevData[d] \in Sto /\ idiDevData[d] # NULL
         /\ Address[p] \in Regs /\ DpReg(d, p) = Address[p]
         /\ DpMult(d, p) = ColumnMult(p, 0) /\ DpVal(d, p) = Value(d, Address[p])
<1>1. /\ idiDpData[d][p] # NULL /\ idiDpData[d][p] \in Sto \X Regs
      /\ idiDpData[d][p][1] = idiDevData[d] /\ idiDevData[d] \in alloc
  BY DEF Usable, Bound, KnownInv, DriverInv, StoreInv, StoreTypeOK
<1>2. idiDevData[d] \in Sto /\ idiDevData[d] # NULL /\ d \in Stored
  BY <1>1, NULLAssumption DEF Stored
<1>3. devState[d] # "dead"
  BY <1>2 DEF KnownInv, DriverInv, StoreInv, StorageOwned
<1>4. DpReg(d, p) = Address[p] /\ DpMult(d, p) = ColumnMult(p, 0)
  BY <1>1, <1>3 DEF KnownInv, DpSlotsOwn
<1>5. DpReg(d, p) \in Regs
  BY <1>1 DEF DpReg, KnownInv, DriverInv, StoreInv, StoreTypeOK, SlotType
<1>. QED BY <1>1, <1>2, <1>4, <1>5 DEF DpVal, Value

LEMMA WriteSets ==
  ASSUME KnownInv, Blank, NEW d \in Devs, NEW p \in Dps, NEW v, DpWrite(d, p, v)
  PROVE  /\ Blank' /\ Address[p] \in Regs /\ Value(d, Address[p])' = v
         /\ \A e \in Devs, r \in Regs :
              e # d \/ r # Address[p] => Value(e, r)' = Value(e, r)
<1>. DEFINE s == idiDevData[d]
            n == Address[p]
<1>1. /\ s \in alloc /\ s \in Sto /\ s # NULL /\ n \in Regs
      /\ pDevDpValVector' = [pDevDpValVector EXCEPT ![s][n] = v]
      /\ idiDevData' = idiDevData /\ alloc' = alloc
  BY UsableDatapoint DEF DpWrite, StoreWrite, SetReg
<1>2. \A e \in Devs \ {d} : idiDevData[e] # s
  BY <1>1 DEF KnownInv, DriverInv, StoreInv, StorageOwned, Stored
<1>3. pDevDpValVector \in [Sto -> [Regs -> Int \cup {NULL}]]
  BY DEF KnownInv, DriverInv, StoreInv, StoreTypeOK
<1>4. /\ \A t \in Sto \ {s} : pDevDpValVector'[t] = pDevDpValVector[t]
      /\ pDevDpValVector'[s][n] = v
      /\ \A r \in Regs \ {n} : pDevDpValVector'[s][r] = pDevDpValVector[s][r]
  BY <1>1, <1>3
<1>5. \A e \in Devs : idiDevData[e] \in Sto \cup {NULL}
  BY DEF KnownInv, DriverInv, StoreInv, StoreTypeOK
<1>. HIDE DEF n
<1>6. Value(d, n)' = v /\ \A r \in Regs \ {n} : Value(d, r)' = Value(d, r)
  BY <1>1, <1>4 DEF Value
<1>. HIDE DEF s
<1>7. Blank'
  BY <1>1, <1>4 DEF Blank
<1>8. \A e \in Devs \ {d}, r \in Regs : Value(e, r)' = Value(e, r)
  BY <1>1, <1>2, <1>4, <1>5 DEF Value
<1>. QED BY <1>1, <1>6, <1>7, <1>8 DEF n

-----------------------------------------------------------------------------
(* A step that gives no result.                                            *)
Silent ==
  /\ answered' = answered /\ \A i \in Ids : log'[i] = log[i]
  /\ Blank' /\ \A d \in Devs, r \in Regs : Filled(d, r)

(* A result, by what the request has done to the values.                   *)
ReadTold(err, val, mult) ==
  /\ Req.action = "IdiaDpread" /\ SameValues
  /\ err = IErr_Success =>
       /\ Address[Req.dp] \in Regs
       /\ val = Value(Req.dev, Address[Req.dp]) /\ val # NULL
       /\ mult = Multiplier(Req.dp)

WriteTold(err) ==
  /\ Req.action = "IdiaDpwrite"
  /\ \/ err = IErr_Failure /\ SameValues
     \/ /\ err \in PublishRc
        /\ \E d \in Devs, n \in Regs :
             /\ d = Req.dev /\ n = Address[Req.dp] /\ Value(d, n)' = cur
             /\ \A e \in Devs, r \in Regs : e # d \/ r # n => Value(e, r)' = Value(e, r)

DeleteTold(err) ==
  /\ Req.action = "IdiaDelete"
  /\ \/ err # IErr_Success /\ SameValues
     \/ /\ err = IErr_Success
        /\ \E d \in Devs :
             /\ d = Req.dev /\ \A r \in Regs : Value(d, r)' = NULL
             /\ \A e \in Devs \ {d}, r \in Regs : Value(e, r)' = Value(e, r)

Told(err, val, mult) ==
  /\ cur # 0 /\ log' = log /\ Answer(err, val, mult) /\ Blank'
  /\ \/ Req.action \notin {"IdiaDpread", "IdiaDpwrite", "IdiaDelete"} /\ SameValues
     \/ ReadTold(err, val, mult)
     \/ WriteTold(err)
     \/ DeleteTold(err)

LEMMA SameIsFilled == SameValues => \A d \in Devs, r \in Regs : Filled(d, r)
BY DEF SameValues, Filled

(* What a read makes of the value it finds.                                *)
LEMMA ReadTells ==
  ASSUME KnownInv, NEW d \in Devs, NEW p \in Dps, Usable(d, p),
         ReadResult(d, p).err = IErr_Success
  PROVE  /\ ReadResult(d, p).val = Value(d, Address[p]) /\ Value(d, Address[p]) # NULL
         /\ ReadResult(d, p).mult = Multiplier(p)
<1>1. DpVal(d, p) = Value(d, Address[p]) /\ DpMult(d, p) = ColumnMult(p, 0)
  BY UsableDatapoint
<1>2. TestMultiplier[p] \in Nat \cup {NULL, BAD} /\ NULL \notin Nat /\ BAD \notin Nat
  BY ColumnAssumption
<1>3. (IF ColumnMult(p, 0) = 0 THEN 1 ELSE ColumnMult(p, 0))
        = IF TestMultiplier[p] \in {NULL, BAD, 0} THEN 1 ELSE TestMultiplier[p]
  BY <1>2 DEF ColumnMult
<1>4. DpVal(d, p) # NULL
  BY DEF ReadResult, IErr_Success, IErr_Failure
<1>5. CASE p \in StringDps
  BY <1>1, <1>4, <1>5 DEF ReadResult, Multiplier
<1>6. CASE p \notin StringDps
  <2>1. DpVal(d, p) # Junk
    BY <1>4, <1>6 DEF ReadResult, IErr_Success, IErr_Failure
  <2>2. ReadResult(d, p) = [err |-> IErr_Success, val |-> DpVal(d, p),
                            mult |-> IF DpMult(d, p) = 0 THEN 1 ELSE DpMult(d, p)]
    BY <1>4, <1>6, <2>1 DEF ReadResult
  <2>. QED BY <1>1, <1>3, <1>4, <1>6, <2>2 DEF Multiplier
<1>. QED BY <1>5, <1>6

LEMMA FsmTold ==
  ASSUME KnownInv, Blank, IdiGenericResultFsm
  PROVE  Silent \/ \E err, val, mult : Told(err, val, mult)
<1>1. /\ cur # 0 /\ Req.dev \in Devs
      /\ Req.action \in DpActions => Req.dp \in Dps
  BY CurrentRequest DEF IdiGenericResultFsm, KnownInv, DriverInv
<1>2. StoreInv
  BY DEF KnownInv, DriverInv
<1>3. UNCHANGED allVars => SameValues /\ Blank'
  BY QuietKeepsValues DEF allVars, storeVars, blockVars
<1>4. ASSUME NEW err, NoResult(err), Blank', \A d \in Devs, r \in Regs : Filled(d, r)
      PROVE  Silent
  BY <1>4 DEF Silent, NoResult, Round
<1>5. ASSUME NEW err, Result(err) PROVE Answer(err, 0, 1) /\ log' = log
  BY <1>5 DEF Result, Round
<1>6. CASE StillBusy
  BY <1>3, <1>4, <1>6, SameIsFilled DEF StillBusy
<1>7. CASE FsmDpCreate
  <2>1. PICK err \in {IErr_Success, IErr_Failure} : DpCreate(Req.dev, Req.dp, err) /\ NoResult(err)
    BY <1>7 DEF FsmDpCreate
  <2>2. Req.dp \in Dps
    BY <1>1, <1>7 DEF FsmDpCreate, DpActions
  <2>. QED BY <1>1, <1>2, <1>4, <2>1, <2>2, DpCreateFills
<1>8. CASE FsmCreate
  <2>1. PICK err \in {IErr_Success, IErr_Failure} : Create(Req.dev, err) /\ Result(err)
    BY <1>8 DEF FsmCreate
  <2>2. SameValues /\ Blank'
    BY <1>1, <1>2, <2>1, CreateKeepsValues
  <2>3. Told(err, 0, 1)
    BY <1>1, <1>5, <1>8, <2>1, <2>2 DEF Told, FsmCreate
  <2>. QED BY <2>3
<1>9. CASE FsmDelete
  <2>1. PICK err \in {IErr_Success, IErr_Failure} : Delete(Req.dev, err) /\ Result(err)
    BY <1>9 DEF FsmDelete
  <2>2. Blank' /\ DeleteTold(err)
    <3>1. PICK d \in Devs : d = Req.dev
      BY <1>1
    <3>2. /\ Blank'
          /\ err # IErr_Success => SameValues
          /\ err = IErr_Success =>
               /\ \A r \in Regs : Value(d, r)' = NULL
               /\ \A e \in Devs \ {d}, r \in Regs : Value(e, r)' = Value(e, r)
      BY <1>2, <2>1, <3>1, DeleteEmpties
    <3>3. Req.action = "IdiaDelete"
      BY <1>9 DEF FsmDelete
    <3>. QED BY <3>1, <3>2, <3>3 DEF DeleteTold
  <2>3. Told(err, 0, 1)
    BY <1>1, <1>5, <2>1, <2>2 DEF Told
  <2>. QED BY <2>3
<1>10. CASE FsmReplace
  <2>1. PICK err \in {IErr_Success, IErr_Failure} : Result(err)
    BY <1>10 DEF FsmReplace
  <2>2. SameValues /\ Blank'
    BY <1>3, <1>10, QuietKeepsValues DEF FsmReplace, Replace, DevReplaceUnid
  <2>3. Told(err, 0, 1)
    BY <1>1, <1>5, <1>10, <2>1, <2>2 DEF Told, FsmReplace
  <2>. QED BY <2>3
<1>11. CASE FsmWrite
  <2>1. Req.dp \in Dps
    BY <1>1, <1>11 DEF FsmWrite, DpActions
  <2>2. CASE UNCHANGED allVars /\ Result(IErr_Failure)
    <3>1. WriteTold(IErr_Failure)
      BY <1>3, <1>11, <2>2 DEF WriteTold, FsmWrite
    <3>2. Told(IErr_Failure, 0, 1)
      BY <1>1, <1>3, <1>5, <2>2, <3>1 DEF Told
    <3>. QED BY <3>2
  <2>3. ASSUME DpWrite(Req.dev, Req.dp, cur), NEW rc \in PublishRc, Result(rc)
        PROVE  Told(rc, 0, 1)
    <3>1. WriteTold(rc) /\ Blank'
      <4>1. PICK d \in Devs, p \in Dps : d = Req.dev /\ p = Req.dp
        BY <1>1, <2>1
      <4>2. PICK n \in Regs : n = Address[p]
        BY <2>3, <4>1, WriteSets
      <4>3. /\ Blank' /\ Value(d, n)' = cur
            /\ \A e \in Devs, r \in Regs : e # d \/ r # n => Value(e, r)' = Value(e, r)
        BY <2>3, <4>1, <4>2, WriteSets
      <4>4. Req.action = "IdiaDpwrite"
        BY <1>11 DEF FsmWrite
      <4>. QED BY <2>3, <4>1, <4>2, <4>3, <4>4 DEF WriteTold
    <3>. QED BY <1>1, <1>5, <2>3, <3>1 DEF Told
  <2>. QED BY <1>11, <2>2, <2>3 DEF FsmWrite
<1>12. CASE FsmRead
  <2>1. Req.dp \in Dps /\ SameValues /\ Blank'
    BY <1>1, <1>3, <1>12 DEF FsmRead, DpActions
  <2>2. CASE Result(IErr_Failure)
    <3>1. ReadTold(IErr_Failure, 0, 1)
      BY <1>12, <2>1 DEF ReadTold, FsmRead, IErr_Success, IErr_Failure
    <3>2. Told(IErr_Failure, 0, 1)
      BY <1>1, <1>5, <2>1, <2>2, <3>1 DEF Told
    <3>. QED BY <3>2
  <2>3. ASSUME Usable(Req.dev, Req.dp), NEW res, res = ReadResult(Req.dev, Req.dp),
               Answer(res.err, res.val, res.mult), Round(res.err)
        PROVE  Told(res.err, res.val, res.mult)
    <3>1. Address[Req.dp] \in Regs
      BY <1>1, <2>1, <2>3, UsableDatapoint
    <3>2. ReadTold(res.err, res.val, res.mult)
      BY <1>1, <1>12, <2>1, <2>3, <3>1, ReadTells DEF ReadTold, FsmRead
    <3>. QED BY <1>1, <2>1, <2>3, <3>2 DEF Told, Round
  <2>. QED BY <1>12, <2>2, <2>3 DEF FsmRead
<1>13. CASE FsmProvision
  <2>1. Told(IErr_Success, 0, 1)
    BY <1>1, <1>3, <1>5, <1>13 DEF Told, FsmProvision
  <2>. QED BY <2>1
<1>. QED BY <1>6, <1>7, <1>8, <1>9, <1>10, <1>11, <1>12, <1>13 DEF IdiGenericResultFsm

(* Every step gives a result, or none.                                     *)
LEMMA EveryStepTold ==
  ASSUME EvPayloads = {}, KnownInv, Blank, [DriverNext]_vars
  PROVE  Silent \/ \E err, val, mult : Told(err, val, mult)
<1>1. CASE IdiGenericResultFsm
  BY <1>1, FsmTold
<1>2. QueueTypeOK /\ Len(log) \in Nat /\ Ids = 1..Len(log)
  BY GivenFacts DEF KnownInv, DriverInv
<1>3. CASE UNCHANGED <<log, answered>> /\ UNCHANGED <<idiDevData, pDevDpValVector, alloc>>
  <2>1. SameValues /\ Blank'
    BY <1>3, QuietKeepsValues
  <2>. QED BY <1>3, <2>1, SameIsFilled DEF Silent
<1>4. CASE IdlCall
  <2>1. CASE SendFails
    BY <1>3, <2>1 DEF SendFails, vars, allVars, storeVars, blockVars, driverVars
  <2>2. ASSUME NEW d \in Devs, NEW req, Called(d, req) PROVE Silent
    <3>1. log' = Append(log, req) /\ answered' = answered
      BY <2>2 DEF Called, Send
    <3>2. \A i \in Ids : log'[i] = log[i]
      BY <1>2, <3>1 DEF QueueTypeOK
    <3>3. UNCHANGED <<idiDevData, pDevDpValVector, alloc>>
      BY <2>2 DEF Called, CallOf, IdlNewDev, IdlNewUnid, IdlStartDelete, allVars, storeVars,
                  blockVars
    <3>4. SameValues /\ Blank'
      BY <3>3, QuietKeepsValues
    <3>. QED BY <3>1, <3>2, <3>4, SameIsFilled DEF Silent
  <2>. QED BY <1>4, <2>1, <2>2, CallKinds
<1>5. CASE Receive \/ StartQueue \/ Tick
  BY <1>3, <1>5 DEF Receive, StartQueue, Tick, allVars, storeVars, blockVars
<1>6. ASSUME NEW d \in Devs, IdlFree(d)
      PROVE  UNCHANGED <<log, answered, idiDevData, pDevDpValVector, alloc>>
  BY <1>6 DEF IdlFree, IdlFreeDev, driverVars, blockVars
<1>7. CASE UNCHANGED vars
  BY <1>3, <1>7 DEF vars, allVars, storeVars, blockVars, driverVars
<1>. QED BY <1>1, <1>3, <1>4, <1>5, <1>6, <1>7 DEF DriverNext, Worker

-----------------------------------------------------------------------------
LEMMA DefaultIsValue == DefVal # NULL
BY ColumnAssumption DEF DefVal

LEMMA SilentKeepsReads ==
  ASSUME KnownInv, ReadInv, Silent
  PROVE  ReadInv'
<1>1. /\ Given' = Given /\ \A a \in Given : log'[a.id] = log[a.id]
  BY GivenFacts DEF Silent, Given
<1>2. ASSUME NEW d, NEW r, NEW i
      PROVE  Until(Given', log', d, r, i) = Until(Given, log, d, r, i)
  BY <1>1, UntilOfLongerLog
<1>3. ValuesInv'
  <2>. SUFFICES ASSUME NEW d \in Devs, NEW r \in Regs
                PROVE  IF Value(d, r)' = NULL THEN Written(d, r)' = {}
                       ELSE IsLast(Value(d, r)', Written(d, r)')
    BY DEF ValuesInv
  <2>1. Written(d, r)' = Written(d, r)
    BY <1>2 DEF Written
  <2>2. IF Value(d, r) = NULL THEN Written(d, r) = {} ELSE IsLast(Value(d, r), Written(d, r))
    BY DEF ReadInv, ValuesInv
  <2>3. CASE Value(d, r)' = Value(d, r)
    BY <2>1, <2>2, <2>3
  <2>4. CASE Value(d, r) = NULL /\ Value(d, r)' = DefVal
    BY <2>1, <2>2, <2>4, DefaultIsValue DEF IsLast
  <2>. QED BY <2>3, <2>4 DEF Silent, Filled
<1>4. ReadsInv'
  <2>. SUFFICES ASSUME NEW a \in Given', ReadAt(a)'
                PROVE  /\ IsLast(a.val, Until(Given', log', log'[a.id].dev,
                                              Address[log'[a.id].dp], a.id))
                       /\ a.mult = Multiplier(log'[a.id].dp)
    BY DEF ReadsInv, Multiplier
  <2>1. a \in Given /\ log'[a.id] = log[a.id]
    BY <1>1
  <2>. QED BY <1>2, <2>1 DEF ReadAt, ReadInv, ReadsInv
<1>. QED BY <1>3, <1>4 DEF ReadInv, Silent

LEMMA ToldKeepsReads ==
  ASSUME IErr_Failure \notin PublishRc, KnownInv, ReadInv,
         NEW err, NEW val, NEW mult, Told(err, val, mult)
  PROVE  ReadInv'
<1>. DEFINE n == [id |-> cur, err |-> err, val |-> val, mult |-> mult]
<1>1. /\ cur # 0 /\ log' = log /\ Given' = Given \cup {n} /\ cur \in Ids
  BY GivenGrows DEF Told, KnownInv, DriverInv, QueueTypeOK
<1>2. /\ cur \in Nat /\ cur < MaxReqs + 1 /\ MaxReqs + 1 \in Nat
      /\ \A a \in Given : a.id \in Nat /\ a.id < cur /\ a.id < MaxReqs + 1
  BY <1>1, GivenFacts, BoundAssumption
<1>3. n.id = cur /\ n.err = err /\ n.val = val /\ n.mult = mult
  OBVIOUS
<1>4. PICK d \in Devs : d = Req.dev
  BY <1>1, CurrentRequest DEF KnownInv, DriverInv
<1>5. PICK act, p : act = Req.action /\ p = Req.dp
  OBVIOUS
<1>6. log[n.id].action = act /\ log[n.id].dev = d /\ log[n.id].dp = p
  BY <1>3, <1>4, <1>5 DEF Req
<1>. HIDE DEF n
<1>7. \A e \in Devs, r \in Regs :
        IF Value(e, r) = NULL THEN Written(e, r) = {} ELSE IsLast(Value(e, r), Written(e, r))
  BY DEF ReadInv, ValuesInv
<1>8. ASSUME NEW e, NEW r, ~Sets(log, n, e, r), ~Empties(log, n, e)
      PROVE  Written(e, r)' = Written(e, r)
  BY <1>1, <1>8, UntilOfOther DEF Written
<1>9. ASSUME act \notin {"IdiaDpwrite", "IdiaDelete"}, SameValues
      PROVE  ValuesInv'
  <2>1. \A e, r : ~Sets(log, n, e, r) /\ ~Empties(log, n, e)
    BY <1>6, <1>9 DEF Sets, Empties
  <2>. QED BY <1>7, <1>8, <1>9, <2>1 DEF ValuesInv, SameValues
<1>10. ASSUME act = "IdiaDpwrite", WriteTold(err)
       PROVE  ValuesInv'
  <2>1. \A e : ~Empties(log, n, e)
    BY <1>6, <1>10 DEF Empties
  <2>2. CASE err = IErr_Failure /\ SameValues
    <3>1. \A e, r : ~Sets(log, n, e, r)
      BY <1>3, <2>2 DEF Sets
    <3>. QED BY <1>7, <1>8, <2>1, <2>2, <3>1 DEF ValuesInv, SameValues
  <2>3. ASSUME err # IErr_Failure, NEW m \in Regs, m = Address[p], Value(d, m)' = cur,
               \A e \in Devs, r \in Regs : e # d \/ r # m => Value(e, r)' = Value(e, r)
        PROVE  ValuesInv'
    <3>. SUFFICES ASSUME NEW e \in Devs, NEW r \in Regs
                  PROVE  IF Value(e, r)' = NULL THEN Written(e, r)' = {}
                         ELSE IsLast(Value(e, r)', Written(e, r)')
      BY DEF ValuesInv
    <3>1. CASE e = d /\ r = m
      <4>1. Sets(log, n, d, m)
        BY <1>3, <1>6, <1>10, <2>3 DEF Sets
      <4>2. Written(d, m)' = Written(d, m) \cup {cur}
        <5>1. n.id < MaxReqs + 1 /\ \A a \in Given : a.id < n.id
          BY <1>2, <1>3
        <5>2. Until(Given \cup {n}, log, d, m, MaxReqs + 1)
                = Until(Given, log, d, m, MaxReqs + 1) \cup {n.id}
          BY <4>1, <5>1, UntilOfWrite
        <5>. QED BY <1>1, <1>3, <5>2 DEF Written
      <4>3. \A l \in Written(d, m) : l <= cur
        <5>1. \A l \in Written(d, m) : \E a \in Given : a.id = l
          BY UntilIsEarlier DEF Written
        <5>. QED BY <1>2, <5>1
      <4>4. IsLast(cur, Written(d, m)') /\ cur # NULL
        BY <1>2, <4>2, <4>3, ColumnAssumption DEF IsLast
      <4>. QED BY <2>3, <3>1, <4>4
    <3>2. CASE e # d \/ r # m
      <4>1. ~Sets(log, n, e, r)
        BY <1>6, <2>3, <3>2 DEF Sets
      <4>. QED BY <1>7, <1>8, <2>1, <2>3, <3>2, <4>1
    <3>. QED BY <3>1, <3>2
  <2>. QED BY <1>4, <1>5, <1>10, <2>2, <2>3 DEF WriteTold
<1>11. ASSUME act = "IdiaDelete", DeleteTold(err)
       PROVE  ValuesInv'
  <2>1. \A e, r : ~Sets(log, n, e, r)
    BY <1>6, <1>11 DEF Sets
  <2>2. CASE err # IErr_Success /\ SameValues
    <3>1. \A e : ~Empties(log, n, e)
      BY <1>3, <2>2 DEF Empties
    <3>. QED BY <1>7, <1>8, <2>1, <2>2, <3>1 DEF ValuesInv, SameValues
  <2>3. ASSUME err = IErr_Success, \A r \in Regs : Value(d, r)' = NULL,
               \A e \in Devs \ {d}, r \in Regs : Value(e, r)' = Value(e, r)
        PROVE  ValuesInv'
    <3>. SUFFICES ASSUME NEW e \in Devs, NEW r \in Regs
                  PROVE  IF Value(e, r)' = NULL THEN Written(e, r)' = {}
                         ELSE IsLast(Value(e, r)', Written(e, r)')
      BY DEF ValuesInv
    <3>1. CASE e = d
      <4>1. Empties(log, n, d)
        BY <1>3, <1>6, <1>11, <2>3 DEF Empties
      <4>2. Written(d, r)' = {}
        BY <1>1, <1>2, <1>3, <4>1, UntilOfDelete DEF Written
      <4>. QED BY <2>3, <3>1, <4>2
    <3>2. CASE e # d
      <4>1. ~Empties(log, n, e)
        BY <1>6, <3>2 DEF Empties
      <4>. QED BY <1>7, <1>8, <2>1, <2>3, <3>2, <4>1
    <3>. QED BY <3>1, <3>2
  <2>. QED BY <1>4, <1>11, <2>2, <2>3 DEF DeleteTold
<1>12. ValuesInv' /\ Blank'
  <2>1. ReadTold(err, val, mult) => act = "IdiaDpread" /\ SameValues
    BY <1>5 DEF ReadTold
  <2>2. /\ WriteTold(err) => act = "IdiaDpwrite"
        /\ DeleteTold(err) => act = "IdiaDelete"
    BY <1>5 DEF WriteTold, DeleteTold
  <2>. QED BY <1>5, <1>9, <1>10, <1>11, <2>1, <2>2 DEF Told
<1>13. ReadsInv'
  <2>. SUFFICES ASSUME NEW a \in Given', ReadAt(a)'
                PROVE  /\ IsLast(a.val, Until(Given', log', log'[a.id].dev,
                                              Address[log'[a.id].dp], a.id))
                       /\ a.mult = Multiplier(log'[a.id].dp)
    BY DEF ReadsInv, Multiplier
  <2>1. ReadAt(a)
    BY <1>1 DEF ReadAt
  <2>2. CASE a \in Given
    <3>1. ~(n.id < a.id) /\ a.id < n.id
      BY <1>2, <1>3, <2>2
    <3>2. \A e, r : Until(Given', log', e, r, a.id) = Until(Given, log, e, r, a.id)
      BY <1>1, <3>1, UntilOfOther
    <3>. QED BY <1>1, <2>1, <2>2, <3>2 DEF ReadInv, ReadsInv
  <2>3. CASE a = n
    <3>1. act = "IdiaDpread" /\ err = IErr_Success
      BY <1>3, <1>6, <2>1, <2>3 DEF ReadAt
    <3>2. /\ Address[p] \in Regs /\ val = Value(d, Address[p]) /\ val # NULL
          /\ mult = Multiplier(p)
      BY <1>4, <1>5, <3>1 DEF Told, ReadTold, WriteTold, DeleteTold
    <3>3. IsLast(val, Written(d, Address[p]))
      BY <1>7, <3>2
    <3>4. Until(Given', log', d, Address[p], cur) = Until(Given, log, d, Address[p], cur)
      <4>1. ~(n.id < cur) /\ ~Empties(log, n, d)
        BY <1>2, <1>3, <1>6, <3>1 DEF Empties
      <4>. QED BY <1>1, <4>1, UntilOfOther
    <3>5. Until(Given, log, d, Address[p], cur) = Written(d, Address[p])
      BY <1>2, UntilOfLater DEF Written
    <3>. QED BY <1>1, <1>3, <1>6, <2>3, <3>2, <3>3, <3>4, <3>5
  <2>. QED BY <1>1, <2>2, <2>3
<1>. QED BY <1>12, <1>13 DEF ReadInv

(* Without ETI events, a read that succeeds returns what the last write    *)
(* accepted before it stored in the datapoint's register, or the default,  *)
(* and the datapoint's own multiplier: for any devices, registers and      *)
(* queue, whichever allocations fail, in either build.  A stored write     *)
(* must only be told from a refused one by its result, which               *)
(* mosquitto_publish could take from it by returning IErr_Failure.         *)
THEOREM ReadsAreRight ==
  ASSUME EvPayloads = {}, IErr_IdiBusy \notin PublishRc, IErr_Failure \notin PublishRc
  PROVE  DriverSpec => []ReadReturnsLastWrite
<1>1. DriverInit => OrderInv /\ ReadInv
  <2>. SUFFICES ASSUME DriverInit PROVE OrderInv /\ ReadInv
    OBVIOUS
  <2>1. OrderInv
    BY DEF DriverInit, OrderInv, AnswersInOrder
  <2>2. Given = {} /\ \A d \in Devs, r \in Regs : Value(d, r) = NULL
    BY DEF DriverInit, StoreInit, Given, Value
  <2>3. \A d, r : Written(d, r) = {}
    BY <2>2 DEF Written, Until
  <2>4. Blank
    BY DEF DriverInit, StoreInit, Blank
  <2>. QED BY <2>1, <2>2, <2>3, <2>4 DEF ReadInv, ValuesInv, ReadsInv
<1>2. DriverInv /\ OrderInv /\ [DriverNext]_vars => OrderInv'
  BY EveryStepIsQueueStep, OrderStep
<1>3. KnownInv /\ ReadInv /\ [DriverNext]_vars => ReadInv'
  <2>. SUFFICES ASSUME KnownInv, ReadInv, [DriverNext]_vars PROVE ReadInv'
    OBVIOUS
  <2>1. Silent \/ \E err, val, mult : Told(err, val, mult)
    BY EveryStepTold DEF ReadInv
  <2>. QED BY <2>1, SilentKeepsReads, ToldKeepsReads
<1>. QED BY <1>1, <1>2, <1>3, ReadInvGives, DriverInvariant, DriverStorage, PTL
         DEF DriverSpec, KnownInv

-----------------------------------------------------------------------------
(* A place for every device the driver handles.                            *)
Room == Cardinality(Handled) <= CDDEVLIMIT /\ Cardinality(Handled) <= Cardinality(Sto)

(* What is known of devices, blocks and requests before each step.         *)
Background ==
  /\ KnownInv /\ RequestInv /\ Blank
  /\ Bare /\ Follows /\ SlotCount /\ NoLostBlock /\ StoredIsLinked

(* Then a device without storage finds some when it is created.            *)
LEMMA PlaceLeft ==
  ASSUME Room, Background, NEW d \in Handled, idiDevData[d] = NULL
  PROVE  ~(deviceEntry >= CDDEVLIMIT) /\ alloc # Sto
<1>1. /\ IsFiniteSet(Handled) /\ Stored \subseteq Handled \ {d} /\ alloc \subseteq Sto
      /\ deviceEntry = Cardinality(Stored) /\ idiDevData \in [Devs -> Sto \cup {NULL}]
  BY DevsAssumption, FS_Subset
     DEF Background, RequestInv, StoreInv, StoreTypeOK, DeviceCount, Stored, Bare
<1>2. /\ IsFiniteSet(Handled \ {d}) /\ Cardinality(Handled \ {d}) = Cardinality(Handled) - 1
      /\ Cardinality(Handled) \in Nat
  BY <1>1, FS_RemoveElement, FS_CardinalityType
<1>3. IsFiniteSet(Stored) /\ Cardinality(Stored) <= Cardinality(Handled \ {d})
  BY <1>1, <1>2, FS_Subset
<1>4. Cardinality(Stored) \in Nat /\ Cardinality(Stored) < Cardinality(Handled)
  BY <1>2, <1>3, FS_CardinalityType
<1>5. ~(deviceEntry >= CDDEVLIMIT)
  BY <1>1, <1>2, <1>4, LimitAssumption DEF Room
<1>6. Cardinality(alloc) <= Cardinality(Stored) /\ IsFiniteSet(alloc)
  <2>. DEFINE f == [e \in Stored |-> idiDevData[e]]
  <2>1. \A e \in Stored : f[e] \in alloc
    BY DEF Background, RequestInv, StoreInv, StorageOwned
  <2>2. \A s \in alloc : \E e \in Stored : f[e] = s
    BY DEF Background, NoLostBlock
  <2>3. f \in Surjection(Stored, alloc)
    BY <2>1, <2>2 DEF Surjection
  <2>. QED BY <1>3, <2>3, FS_Surjection
<1>7. Cardinality(alloc) < Cardinality(Sto)
  BY <1>2, <1>4, <1>6, FS_CardinalityType, StoAssumption DEF Room
<1>8. Cardinality(Sto) \in Nat
  BY StoAssumption, FS_CardinalityType
<1>. QED BY <1>5, <1>7, <1>8

LEMMA CreateStores ==
  ASSUME ~AllocFails, Room, Background, NEW d \in Devs, NEW err, Create(d, err)
  PROVE  /\ devState' = [devState EXCEPT ![d] = IF d \in Handled THEN "created" ELSE "dead"]
         /\ d \in Handled => idiDevData'[d] # NULL
         /\ \A e \in Devs \ {d} : idiDevData'[e] = idiDevData[e]
         /\ idiDevData[d] # NULL => idiDevData'[d] # NULL
         /\ idiDpData' = idiDpData
<1>1. idiDevData \in [Devs -> Sto \cup {NULL}] /\ NULL \notin Sto
  BY NULLAssumption DEF Background, RequestInv, StoreInv, StoreTypeOK
<1>2. CASE d \notin Handled
  BY <1>2 DEF Create, IdlCreateResult, storeVars, IErr_Success, IErr_Failure
<1>3. CASE d \in Handled
  <2>1. DevSetCustomIdiDevData(d, err) /\ devState' = [devState EXCEPT ![d] = "created"]
    BY <1>3 DEF Create, IdlCreateResult, DevSetCustomIdiDevData
  <2>2. CASE idiDevData[d] # NULL
    <3>1. UNCHANGED storeVars
      BY <2>1, <2>2 DEF DevSetCustomIdiDevData, SetRefused
    <3>. QED BY <1>3, <2>1, <2>2, <3>1 DEF storeVars
  <2>3. CASE idiDevData[d] = NULL
    <3>1. PICK s \in Sto \ alloc : SetStored(d, s)
      BY <1>3, <2>1, <2>3, PlaceLeft DEF DevSetCustomIdiDevData, SetRefused, SetNoMemory
    <3>2. idiDevData' = [idiDevData EXCEPT ![d] = s] /\ idiDpData' = idiDpData
      BY <3>1 DEF SetStored
    <3>. QED BY <1>1, <1>3, <2>1, <2>3, <3>2
  <2>. QED BY <2>2, <2>3
<1>. QED BY <1>2, <1>3

LEMMA DeleteTakes ==
  ASSUME Background, NEW d \in Devs, NEW err, Delete(d, err)
  PROVE  /\ devState' = [devState EXCEPT ![d] = IF err = IErr_Success THEN "dead" ELSE "created"]
         /\ err # IErr_Success => idiDevData' = idiDevData
         /\ \A e \in Devs \ {d} : idiDevData'[e] = idiDevData[e]
         /\ idiDpData' = idiDpData
<1>1. idiDevData \in [Devs -> Sto \cup {NULL}]
  BY DEF Background, RequestInv, StoreInv, StoreTypeOK
<1>2. CASE UNCHANGED storeVars
  BY <1>2 DEF Delete, IdlDeleteResult, storeVars
<1>3. CASE err = IErr_Success /\ RemoveFound(d, idiDevData[d])
  BY <1>1, <1>3 DEF Delete, IdlDeleteResult, RemoveFound
<1>. QED BY <1>2, <1>3 DEF Delete, DevRemoveCustomIdiDevData

(* A datapoint of a device that has storage is set up.                     *)
LEMMA DpCreateSetsUp ==
  ASSUME Background, NEW d \in Devs, NEW p \in Dps, NEW err, DpCreate(d, p, err)
  PROVE  /\ UNCHANGED <<devState, idiDevData>>
         /\ \A e \in Devs, q \in Dps : idiDpData[e][q] # NULL => idiDpData'[e][q] # NULL
         /\ \A e \in Devs, q \in Dps : idiDpData[e][q] = NULL /\ idiDpData'[e][q] # NULL =>
              e = d /\ q = p /\ (Address[p] \in Regs => Value(d, Address[p])' # NULL)
         /\ idiDevData[d] # NULL /\ Address[p] < DevDpCounts => idiDpData'[d][p] # NULL
<1>. USE DEF Background, RequestInv
<1>1. /\ idiDpData \in [Devs -> [Dps -> (Sto \X Regs) \cup {NULL}]]
      /\ idiDevData \in [Devs -> Sto \cup {NULL}]
      /\ devDpEntry \in [Sto -> 0 .. DevDpCounts]
      /\ pDevDpValVector \in [Sto -> [Regs -> Int \cup {NULL}]]
  BY DEF StoreInv, StoreTypeOK
<1>2. CASE UNCHANGED storeVars /\ idiDpData[d][p] # NULL
  BY <1>2 DEF DpCreate, storeVars, idlVars
<1>3. CASE UNCHANGED storeVars /\ idiDpData[d][p] = NULL /\ ~MayBind(d, p)
  <2>1. ASSUME idiDevData[d] # NULL, Address[p] < DevDpCounts PROVE FALSE
    <3>. DEFINE s == idiDevData[d]
    <3>1. d \in Stored /\ devDpEntry[s] = Cardinality(SetUp(d))
      BY <2>1 DEF Stored, SlotCount
    <3>2. SetUp(d) \subseteq Dps \ {p}
      BY <1>3 DEF SetUp
    <3>3. /\ IsFiniteSet(Dps \ {p}) /\ Cardinality(Dps \ {p}) = Cardinality(Dps) - 1
          /\ Cardinality(Dps) \in Nat
      BY DpsAssumption, FS_RemoveElement, FS_CardinalityType
    <3>4. Cardinality(SetUp(d)) <= Cardinality(Dps \ {p}) /\ IsFiniteSet(SetUp(d))
      BY <3>2, <3>3, FS_Subset
    <3>5. Cardinality(SetUp(d)) \in Nat
      BY <3>4, FS_CardinalityType
    <3>6. devDpEntry[s] < DevDpCounts
      BY <3>1, <3>3, <3>4, <3>5 DEF DevDpCounts
    <3>. QED BY <1>3, <2>1, <3>6 DEF MayBind
  <2>. QED BY <1>3, <2>1 DEF DpCreate, storeVars, idlVars
<1>4. CASE idiDpData[d][p] = NULL /\ MayBind(d, p) /\ BindDp(d, p)
  <2>. DEFINE s == idiDevData[d]
              k == devDpEntry[s]
              r == Address[p]
  <2>1. s \in Sto /\ s # NULL /\ k \in Regs
    BY <1>1, <1>4, NULLAssumption, DpsAssumption, FS_CardinalityType DEF MayBind, Regs, DevDpCounts
  <2>2. <<s, k>> # NULL
    BY <2>1, PointerAssumption
  <2>3. /\ idiDpData' = [idiDpData EXCEPT ![d][p] = <<s, k>>] /\ idiDevData' = idiDevData
        /\ pDevDpValVector' = IF pDevDpValVector[s][r] = NULL
                              THEN [pDevDpValVector EXCEPT ![s][r] = DefVal]
                              ELSE pDevDpValVector
    BY <1>4 DEF BindDp
  <2>4. UNCHANGED devState
    BY DEF DpCreate, idlVars
  <2>. HIDE DEF k
  <2>5. idiDpData'[d][p] # NULL /\ \A e \in Devs, q \in Dps : e # d \/ q # p => idiDpData'[e][q] = idiDpData[e][q]
    BY <1>1, <2>2, <2>3
  <2>6. r \in Regs => pDevDpValVector'[s][r] # NULL
    BY <1>1, <2>1, <2>3, DefaultIsValue
  <2>7. r \in Regs => Value(d, r)' # NULL
    BY <2>1, <2>3, <2>6 DEF Value
  <2>. HIDE DEF s, r
  <2>. QED BY <2>3, <2>4, <2>5, <2>7 DEF r
<1>. QED BY <1>2, <1>3, <1>4, PointerAssumption DEF DpCreate, IdiDpProcessCustomColum, Bound

-----------------------------------------------------------------------------
(* A value stays or is replaced by a number.                               *)
Sound == \A e \in Devs, r \in Regs : Value(e, r)' = Value(e, r) \/ Value(e, r)' \in Nat

LEMMA SameIsSound == SameValues => Sound
BY DEF SameValues, Sound

LEMMA FilledIsSound == (\A e \in Devs, r \in Regs : Filled(e, r)) => Sound
BY DEF Filled, Sound, DefVal

SameDevices == UNCHANGED <<devState, idiDevData, idiDpData>>

(* The steps, by what they do to devices and requests.                     *)
Rests == SameDevices /\ SameValues /\ UNCHANGED <<log, answered>> /\ Pending' = Pending

(* A read fails only where there is no datapoint or no value.              *)
Reads(d, err) ==
  err # IErr_Success =>
    \E p \in Dps : /\ p = Req.dp
                   /\ \/ idiDpData[d][p] = NULL
                      \/ Address[p] \in Regs /\ Value(d, Address[p]) \in {NULL, Junk}

Ended(d, err) ==
  /\ cur # 0 /\ d = Req.dev /\ log' = log /\ Pending' = Pending \ {cur}
  /\ \/ /\ Req.action = "IdiaDpCreate" /\ answered' = answered /\ Sound
        /\ \E p \in Dps : p = Req.dp /\ DpCreate(d, p, err)
     \/ Req.action = "IdiaCreate" /\ Create(d, err) /\ Sound /\ Answer(err, 0, 1)
     \/ Req.action = "IdiaDelete" /\ Delete(d, err) /\ Answer(err, 0, 1)
     \/ /\ Req.action \notin {"IdiaDpCreate", "IdiaCreate", "IdiaDelete"}
        /\ SameDevices /\ Sound
        /\ Req.action = "IdiaDpread" => Reads(d, err)
        /\ \E val, mult : Answer(err, val, mult)

LEMMA RoundIsLast ==
  ASSUME Background, cur # 0, NEW err, Round(err), err # IErr_IdiBusy
  PROVE  log' = log /\ Pending' = Pending \ {cur}
BY RoundEndsPending DEF Background, RequestInv

LEMMA FsmEnds ==
  ASSUME ~ENABLE_SIMULATION, IErr_IdiBusy \notin PublishRc, Background, IdiGenericResultFsm
  PROVE  \E d \in Devs : \E err : Ended(d, err)
<1>1. KnownInv /\ Blank /\ StoreInv
  BY DEF Background, RequestInv
<1>2. PICK d \in Devs : d = Req.dev
  BY <1>1, CurrentRequest DEF IdiGenericResultFsm, KnownInv, DriverInv
<1>3. /\ cur # 0 /\ cur \in Nat
      /\ Req.action \in DpActions => Req.dp \in Dps
  BY <1>1, CurrentRequest DEF IdiGenericResultFsm, KnownInv, DriverInv, QueueTypeOK, Ids
<1>4. UNCHANGED allVars => SameDevices /\ SameValues
  BY <1>1, QuietKeepsValues DEF allVars, idlVars, storeVars, blockVars, SameDevices
<1>5. ASSUME NEW err, Round(err), err # IErr_IdiBusy
      PROVE  log' = log /\ Pending' = Pending \ {cur}
  BY <1>3, <1>5, RoundIsLast
<1>6. CASE FsmDpCreate
  <2>1. PICK err \in {IErr_Success, IErr_Failure} : DpCreate(d, Req.dp, err) /\ NoResult(err)
    BY <1>2, <1>6 DEF FsmDpCreate
  <2>2. PICK p \in Dps : p = Req.dp
    BY <1>3, <1>6 DEF FsmDpCreate, DpActions
  <2>3. Sound
    BY <1>1, <2>1, <2>2, DpCreateFills, FilledIsSound
  <2>4. answered' = answered /\ log' = log /\ Pending' = Pending \ {cur}
    BY <1>5, <2>1 DEF NoResult, IErr_Success, IErr_Failure, IErr_IdiBusy
  <2>5. Ended(d, err)
    BY <1>2, <1>3, <1>6, <2>1, <2>2, <2>3, <2>4 DEF Ended, FsmDpCreate
  <2>. QED BY <2>5
<1>7. CASE FsmCreate
  <2>1. PICK err \in {IErr_Success, IErr_Failure} : Create(d, err) /\ Result(err)
    BY <1>2, <1>7 DEF FsmCreate
  <2>2. Sound
    BY <1>1, <2>1, CreateKeepsValues, SameIsSound
  <2>3. Answer(err, 0, 1) /\ log' = log /\ Pending' = Pending \ {cur}
    BY <1>5, <2>1 DEF Result, IErr_Success, IErr_Failure, IErr_IdiBusy
  <2>4. Ended(d, err)
    BY <1>2, <1>3, <1>7, <2>1, <2>2, <2>3 DEF Ended, FsmCreate
  <2>. QED BY <2>4
<1>8. CASE FsmDelete
  <2>1. PICK err \in {IErr_Success, IErr_Failure} : Delete(d, err) /\ Result(err)
    BY <1>2, <1>8 DEF FsmDelete
  <2>2. Answer(err, 0, 1) /\ log' = log /\ Pending' = Pending \ {cur}
    BY <1>5, <2>1 DEF Result, IErr_Success, IErr_Failure, IErr_IdiBusy
  <2>3. Ended(d, err)
    BY <1>2, <1>3, <1>8, <2>1, <2>2 DEF Ended, FsmDelete
  <2>. QED BY <2>3
<1>9. ASSUME Req.action \notin {"IdiaDpCreate", "IdiaCreate", "IdiaDelete"},
             SameDevices, Sound, NEW err, NEW val, NEW mult, Answer(err, val, mult), Round(err),
             err # IErr_IdiBusy, Req.action = "IdiaDpread" => Reads(d, err)
      PROVE  \E e : Ended(d, e)
  <2>1. Ended(d, err)
    BY <1>2, <1>3, <1>5, <1>9 DEF Ended
  <2>. QED BY <2>1
<1>10. CASE FsmReplace
  <2>1. PICK err \in {IErr_Success, IErr_Failure} : Result(err)
    BY <1>10 DEF FsmReplace
  <2>2. SameDevices /\ SameValues
    BY <1>1, <1>4, <1>10, QuietKeepsValues
       DEF FsmReplace, Replace, DevReplaceUnid, SameDevices, idlVars
  <2>. QED BY <1>9, <1>10, <2>1, <2>2, SameIsSound
           DEF FsmReplace, Result, IErr_Success, IErr_Failure, IErr_IdiBusy
<1>11. CASE FsmWrite
  <2>1. PICK p \in Dps : p = Req.dp
    BY <1>3, <1>11 DEF FsmWrite, DpActions
  <2>2. CASE UNCHANGED allVars /\ Result(IErr_Failure)
    BY <1>4, <1>9, <1>11, <2>2, SameIsSound DEF FsmWrite, Result, IErr_Failure, IErr_IdiBusy
  <2>3. ASSUME DpWrite(d, p, cur), NEW rc \in PublishRc, Result(rc)
        PROVE  \E e : Ended(d, e)
    <3>1. Sound
      BY <1>1, <1>3, <2>3, WriteSets DEF Sound
    <3>2. SameDevices
      BY <2>3 DEF DpWrite, StoreWrite, SetReg, idlVars, SameDevices
    <3>3. rc # IErr_IdiBusy
      BY <2>3
    <3>. QED BY <1>9, <1>11, <2>3, <3>1, <3>2, <3>3 DEF FsmWrite, Result
  <2>. QED BY <1>2, <1>11, <2>1, <2>2, <2>3 DEF FsmWrite
<1>12. CASE FsmRead
  <2>1. PICK p \in Dps : p = Req.dp
    BY <1>3, <1>12 DEF FsmRead, DpActions
  <2>2. SameDevices /\ Sound /\ Req.action = "IdiaDpread"
    BY <1>4, <1>12, SameIsSound DEF FsmRead
  <2>3. CASE idiDpData[d][p] = NULL /\ Result(IErr_Failure)
    <3>1. Reads(d, IErr_Failure)
      BY <2>1, <2>3 DEF Reads
    <3>. QED BY <1>9, <2>2, <2>3, <3>1 DEF Result, IErr_Failure, IErr_IdiBusy
  <2>4. ASSUME Usable(d, p), NEW res, res = ReadResult(d, p),
               Answer(res.err, res.val, res.mult), Round(res.err)
        PROVE  \E e : Ended(d, e)
    <3>1. Address[p] \in Regs /\ DpVal(d, p) = Value(d, Address[p])
      BY <1>1, <2>4, UsableDatapoint
    <3>2. res.err \in {IErr_Success, IErr_Failure}
          /\ (res.err # IErr_Success => DpVal(d, p) \in {NULL, Junk})
      BY <2>4 DEF ReadResult
    <3>3. Reads(d, res.err)
      BY <2>1, <3>1, <3>2 DEF Reads
    <3>. QED BY <1>9, <2>2, <2>4, <3>2, <3>3 DEF IErr_Success, IErr_Failure, IErr_IdiBusy
  <2>. QED BY <1>2, <1>12, <2>1, <2>3, <2>4 DEF FsmRead
<1>13. CASE FsmProvision
  BY <1>4, <1>9, <1>13, SameIsSound DEF FsmProvision, Result, IErr_Success, IErr_IdiBusy
<1>. QED BY <1>6, <1>7, <1>8, <1>10, <1>11, <1>12, <1>13 DEF IdiGenericResultFsm, StillBusy

(* A call only adds a request, and starts a device or its deletion.        *)
LEMMA CallAdds ==
  ASSUME Background, NEW d \in Devs, NEW req, Called(d, req)
  PROVE  UNCHANGED <<idiDevData, idiDpData, answered>> /\ SameValues
<1>1. UNCHANGED <<idiDevData, idiDpData, answered, pDevDpValVector, alloc>>
  BY DEF Called, CallOf, Send, IdlNewDev, IdlNewUnid, IdlStartDelete, allVars, storeVars, blockVars
<1>. QED BY <1>1, QuietKeepsValues DEF Background

LEMMA FreeClears ==
  ASSUME Background, NEW d \in Devs, IdlFree(d)
  PROVE  /\ UNCHANGED <<idiDevData, answered, log>> /\ SameValues /\ Pending' = Pending
         /\ devState[d] = "dead" /\ devState' = [devState EXCEPT ![d] = "absent"]
         /\ \A e \in Devs \ {d} : idiDpData'[e] = idiDpData[e]
         /\ \A p \in Dps : idiDpData'[d][p] = NULL
<1>1. /\ UNCHANGED <<idiDevData, answered, log, pDevDpValVector, alloc, cur, devQ>>
      /\ devState[d] = "dead" /\ devState' = [devState EXCEPT ![d] = "absent"]
      /\ idiDpData' = [idiDpData EXCEPT ![d] = NoDps]
  BY DEF IdlFree, IdlFreeDev, driverVars, blockVars
<1>2. idiDpData \in [Devs -> [Dps -> (Sto \X Regs) \cup {NULL}]]
  BY DEF Background, RequestInv, StoreInv, StoreTypeOK
<1>3. SameValues /\ Pending' = Pending
  BY <1>1, QuietKeepsValues DEF Background, Pending
<1>. QED BY <1>1, <1>2, <1>3 DEF NoDps

(* There are no other steps.                                               *)
LEMMA Moves ==
  ASSUME ~ENABLE_SIMULATION, IErr_IdiBusy \notin PublishRc, EvPayloads = {}, Background,
         [DriverNext]_vars
  PROVE  \/ Rests
         \/ \E d \in Devs : \E req : Called(d, req)
         \/ \E d \in Devs : IdlFree(d)
         \/ \E d \in Devs : \E err : Ended(d, err)
<1>1. Blank /\ QueueInv
  BY DEF Background, RequestInv
<1>2. CASE UNCHANGED allVars /\ UNCHANGED <<log, answered>> /\ Pending' = Pending
  BY <1>1, <1>2, QuietKeepsValues DEF Rests, SameDevices, allVars, idlVars, storeVars, blockVars
<1>3. CASE Receive
  BY <1>1, <1>2, <1>3, ReceiveKeepsPending DEF Receive
<1>4. CASE StartQueue \/ Tick \/ UNCHANGED vars \/ SendFails
  BY <1>1, <1>2, <1>4, QuietKeepsPending DEF StartQueue, Tick, SendFails, vars, driverVars
<1>5. CASE IdlCall
  BY <1>4, <1>5, CallKinds
<1>6. CASE IdiGenericResultFsm
  BY <1>6, FsmEnds
<1>. QED BY <1>3, <1>4, <1>5, <1>6 DEF DriverNext, Worker

-----------------------------------------------------------------------------
(* A request that does not wait any more is older than those that do.      *)
Past == \A i \in Ids \ Pending, k \in Pending : i < k

(* A device of the driver's that has been created has storage; only such a *)
(* device is read; and the creation of one that has not been created waits *)
(* before all other requests about it.                                     *)
Creations ==
  /\ \A d \in Devs : devState[d] \in {"created", "deleting"} =>
       d \in Handled /\ idiDevData[d] # NULL
  /\ \A i \in Ids : log[i].action = "IdiaDpread" => log[i].dev \in Handled
  /\ \A d \in Handled : devState[d] = "creating" =>
       \E c \in Pending : /\ log[c].action = "IdiaCreate" /\ log[c].dev = d
                          /\ \A j \in Pending : log[j].dev = d => c <= j

(* Every value is a number, and a datapoint that is set up has one.        *)
Numbers == \A d \in Devs, r \in Regs : Value(d, r) \in Nat \cup {NULL}

Fillings ==
  \A d \in Devs, p \in Dps :
    devState[d] # "dead" /\ idiDpData[d][p] # NULL /\ Address[p] \in Regs =>
      Value(d, Address[p]) # NULL

(* A datapoint that was announced is set up once its announcement has been *)
(* served, unless its device was deleted since.                            *)
Announcement(L, j) ==
  L[j].action = "IdiaDpCreate" /\ L[j].dev \in Handled /\ Address[L[j].dp] < DevDpCounts

Gone(R, L, j) == \E x \in R : Empties(L, x, L[j].dev) /\ j <= x.id

SetUpAfter(j) ==
  /\ devState[log[j].dev] \notin {"absent", "dead"}
  /\ j \in Pending \/ idiDpData[log[j].dev][log[j].dp] # NULL

Announcements == \A j \in Ids : Announcement(log, j) => Gone(Given, log, j) \/ SetUpAfter(j)

(* Whatever happens in a step.                                             *)
Setting ==
  /\ ~ENABLE_SIMULATION /\ IErr_IdiBusy \notin PublishRc /\ EvPayloads = {}
  /\ ~AllocFails /\ ~PollWhileDeleting /\ Room

LEMMA IdFacts ==
  ASSUME Background
  PROVE  /\ Pending \subseteq Ids /\ Ids \subseteq Nat /\ Len(log) \in Nat /\ Ids = 1..Len(log)
         /\ \A i \in Ids : log[i].dev \in Devs
         /\ \A i \in Ids : log[i].action \in DpActions => log[i].dp \in Dps
         /\ \A a \in Given : a.id \in Ids
         /\ devState \in [Devs -> DevStates]
<1>1. \A i \in Ids : log[i].action \in DpActions => log[i].dp \in Dps
  BY DEF Background, RequestInv, QueueInv, QueueTypeOK
<1>. QED BY <1>1, RequestFacts, PendingAccepted, GivenFacts DEF Background, RequestInv

LEMMA PastStep ==
  ASSUME Setting, Background, Past, [DriverNext]_vars
  PROVE  Past'
<1>1. CASE Rests
  BY <1>1 DEF Rests, Past, Ids
<1>2. ASSUME NEW d \in Devs, NEW req, Called(d, req) PROVE Past'
  <2>1. /\ Pending' = Pending \cup {Len(log) + 1} /\ Ids' = Ids \cup {Len(log) + 1}
        /\ \A i \in Ids : i < Len(log) + 1
    BY <1>2, SendAddsPending, IdFacts DEF Called, Background, RequestInv
  <2>. QED BY <2>1 DEF Past
<1>3. ASSUME NEW d \in Devs, IdlFree(d) PROVE Past'
  BY <1>3, FreeClears DEF Past, Ids
<1>4. ASSUME NEW d \in Devs, NEW err, Ended(d, err) PROVE Past'
  <2>1. /\ Ids' = Ids /\ Pending' = Pending \ {cur} /\ cur \in Nat
        /\ \A i \in Pending : cur <= i /\ i \in Nat
    BY <1>4, CurrentIsOldest, IdFacts DEF Ended, Ids, Background, RequestInv
  <2>. QED BY <2>1 DEF Past
<1>. QED BY <1>1, <1>2, <1>3, <1>4, Moves DEF Setting

LEMMA NumbersStep ==
  ASSUME Setting, Background, Numbers, Fillings, [DriverNext]_vars
  PROVE  Numbers' /\ Fillings'
<1>. USE DEF Background
<1>1. StoreInv /\ Blank /\ NULL \notin Nat /\ devState \in [Devs -> DevStates]
  BY ColumnAssumption, IdFacts DEF RequestInv
<1>2. ASSUME Sound PROVE Numbers'
  BY <1>2 DEF Sound, Numbers
<1>3. ASSUME Sound,
             \A e \in Devs, p \in Dps :
               devState'[e] # "dead" /\ idiDpData'[e][p] # NULL =>
                 \/ devState[e] # "dead" /\ idiDpData[e][p] # NULL
                 \/ Address[p] \in Regs => Value(e, Address[p])' # NULL
      PROVE  Numbers' /\ Fillings'
  <2>1. \A e \in Devs, r \in Regs : Value(e, r) # NULL => Value(e, r)' # NULL
    BY <1>1, <1>3 DEF Sound
  <2>. QED BY <1>2, <1>3, <2>1 DEF Fillings
<1>4. CASE Rests
  BY <1>3, <1>4, SameIsSound DEF Rests, SameDevices
<1>5. ASSUME NEW d \in Devs, NEW req, Called(d, req) PROVE Numbers' /\ Fillings'
  <2>1. \A e \in Devs : devState[e] = "dead" => devState'[e] = "dead"
    BY <1>1, <1>5 DEF Called, CallOf, IdlNewDev, IdlNewUnid, IdlStartDelete, allVars, idlVars
  <2>. QED BY <1>3, <1>5, <2>1, CallAdds, SameIsSound
<1>6. ASSUME NEW d \in Devs, IdlFree(d) PROVE Numbers' /\ Fillings'
  BY <1>1, <1>3, <1>6, FreeClears, SameIsSound
<1>7. ASSUME NEW d \in Devs, NEW err, Ended(d, err) PROVE Numbers' /\ Fillings'
  <2>1. ASSUME NEW p \in Dps, DpCreate(d, p, err), Sound PROVE Numbers' /\ Fillings'
    BY <1>3, <2>1, DpCreateSetsUp
  <2>2. CASE Create(d, err) /\ Sound
    <3>1. /\ idiDpData' = idiDpData /\ \A e \in Devs \ {d} : devState'[e] = devState[e]
          /\ devState[d] # "dead"
      BY <1>1, <2>2, CreateStores DEF Create, Setting
    <3>. QED BY <1>3, <2>2, <3>1
  <2>3. CASE Delete(d, err)
    <3>1. /\ idiDpData' = idiDpData /\ \A e \in Devs \ {d} : devState'[e] = devState[e]
          /\ devState[d] # "dead" /\ (err = IErr_Success => devState'[d] = "dead")
      BY <1>1, <2>3, DeleteTakes DEF Delete
    <3>2. /\ err # IErr_Success => SameValues
          /\ err = IErr_Success =>
               /\ \A r \in Regs : Value(d, r)' = NULL
               /\ \A e \in Devs \ {d}, r \in Regs : Value(e, r)' = Value(e, r)
      BY <1>1, <2>3, DeleteEmpties
    <3>3. CASE err # IErr_Success
      BY <1>3, <3>1, <3>2, <3>3, SameIsSound
    <3>4. CASE err = IErr_Success
      <4>1. Numbers'
        BY <3>2, <3>4 DEF Numbers
      <4>2. Fillings'
        BY <3>1, <3>2, <3>4 DEF Fillings
      <4>. QED BY <4>1, <4>2
    <3>. QED BY <3>3, <3>4
  <2>4. CASE SameDevices /\ Sound
    BY <1>3, <2>4 DEF SameDevices
  <2>. QED BY <1>7, <2>1, <2>2, <2>3, <2>4 DEF Ended
<1>. QED BY <1>4, <1>5, <1>6, <1>7, Moves DEF Setting

LEMMA CreationsStep ==
  ASSUME Setting, Background, Creations, [DriverNext]_vars
  PROVE  Creations'
<1>1. /\ Pending \subseteq Ids /\ Ids \subseteq Nat /\ devState \in [Devs -> DevStates]
      /\ \A i \in Ids : log[i].dev \in Devs
      /\ Handled \subseteq Devs /\ QueueInv
  BY IdFacts, DevsAssumption DEF Background, RequestInv
<1>2. CASE Rests
  BY <1>2 DEF Rests, SameDevices, Creations, Ids
<1>3. ASSUME NEW d \in Devs, NEW req, Called(d, req) PROVE Creations'
  <2>. DEFINE new == Len(log) + 1
  <2>1. /\ Pending' = Pending \cup {new} /\ Ids' = Ids \cup {new} /\ new \notin Ids
        /\ \A i \in Pending : i < new
        /\ \A i \in Ids : log'[i] = log[i]
        /\ log'[new] = req /\ req.dev = d /\ new \in Nat
    BY <1>1, <1>3, SendAddsPending, IdFacts DEF Called
  <2>. HIDE DEF new
  <2>2. UNCHANGED <<idiDevData, idiDpData>>
    BY <1>3, CallAdds
  <2>3. /\ \A e \in Devs \ {d} : devState'[e] = devState[e]
        /\ devState'[d] \in {"created", "deleting"} => devState[d] \in {"created", "deleting"}
        /\ req.action = "IdiaDpread" => devState[d] = "created"
        /\ devState'[d] = "creating" =>
             \/ devState[d] = "creating"
             \/ devState[d] = "absent" /\ req.action = "IdiaCreate"
    BY <1>1, <1>3
       DEF Called, CallOf, IdlNewDev, IdlNewUnid, IdlStartDelete, allVars, idlVars, DpActions,
           Pollable, Setting
  <2>4. \A e \in Devs : devState'[e] \in {"created", "deleting"} => e \in Handled /\ idiDevData'[e] # NULL
    BY <2>2, <2>3 DEF Creations
  <2>5. \A i \in Ids' : log'[i].action = "IdiaDpread" => log'[i].dev \in Handled
    BY <2>1, <2>3 DEF Creations
  <2>6. ASSUME NEW e \in Handled, devState'[e] = "creating"
        PROVE  \E c \in Pending' : /\ log'[c].action = "IdiaCreate" /\ log'[c].dev = e
                                   /\ \A j \in Pending' : log'[j].dev = e => c <= j
    <3>1. CASE devState[e] = "creating"
      <4>1. PICK c \in Pending : /\ log[c].action = "IdiaCreate" /\ log[c].dev = e
                                 /\ \A j \in Pending : log[j].dev = e => c <= j
        BY <3>1 DEF Creations
      <4>2. c \in Nat /\ c < new
        BY <1>1, <2>1
      <4>3. c <= new
        BY <2>1, <4>2
      <4>4. \A j \in Pending : log'[j] = log[j]
        BY <1>1, <2>1
      <4>5. c \in Pending' /\ log'[c] = log[c]
        BY <2>1, <4>4
      <4>6. ASSUME NEW j \in Pending', log'[j].dev = e PROVE c <= j
        <5>1. CASE j = new
          BY <4>3, <5>1
        <5>2. CASE j \in Pending
          BY <4>1, <4>4, <4>6, <5>2
        <5>. QED BY <2>1, <5>1, <5>2
      <4>. QED BY <4>1, <4>5, <4>6
    <3>2. CASE e = d /\ devState[d] = "absent" /\ req.action = "IdiaCreate"
      <4>1. \A j \in Pending : log[j].dev # d
        BY <3>2 DEF Background, RequestInv, Requests
      <4>2. \A j \in Pending : log'[j].dev # d
        BY <1>1, <2>1, <4>1
      <4>. QED BY <2>1, <3>2, <4>2
    <3>. QED BY <1>1, <2>3, <2>6, <3>1, <3>2
  <2>. QED BY <2>4, <2>5, <2>6 DEF Creations
<1>4. ASSUME NEW d \in Devs, IdlFree(d) PROVE Creations'
  <2>1. /\ UNCHANGED <<idiDevData, log>> /\ Pending' = Pending
        /\ devState' = [devState EXCEPT ![d] = "absent"]
    BY <1>4, FreeClears
  <2>. QED BY <1>1, <2>1 DEF Creations, Ids
<1>5. ASSUME NEW d \in Devs, NEW err, Ended(d, err) PROVE Creations'
  <2>1. /\ log' = log /\ Ids' = Ids /\ Pending' = Pending \ {cur} /\ d = log[cur].dev
        /\ cur \in Pending
    BY <1>1, <1>5, CurrentIsOldest DEF Ended, Req, Ids
  <2>2. /\ \A e \in Devs \ {d} : devState'[e] = devState[e]
        /\ \/ devState'[d] = devState[d] /\ (idiDevData[d] # NULL => idiDevData'[d] # NULL)
           \/ devState'[d] \notin {"creating", "created", "deleting"}
           \/ devState'[d] = "created" /\ d \in Handled /\ idiDevData'[d] # NULL
        /\ log[cur].action = "IdiaCreate" => devState'[d] # "creating"
        /\ \A e \in Devs \ {d} : idiDevData'[e] = idiDevData[e]
    <3>1. CASE Req.action = "IdiaDpCreate" /\ \E p \in Dps : p = Req.dp /\ DpCreate(d, p, err)
      BY <3>1, DpCreateSetsUp DEF Req
    <3>2. CASE Create(d, err)
      BY <1>1, <3>2, CreateStores DEF Setting
    <3>3. CASE Req.action = "IdiaDelete" /\ Delete(d, err)
      <4>1. devState[d] = "deleting"
        BY <3>3 DEF Delete
      <4>2. idiDevData[d] # NULL /\ d \in Handled
        BY <4>1 DEF Creations
      <4>. QED BY <1>1, <3>3, <4>2, DeleteTakes DEF Req
    <3>4. CASE SameDevices /\ Req.action # "IdiaCreate"
      BY <3>4 DEF SameDevices, Req
    <3>. QED BY <1>5, <3>1, <3>2, <3>3, <3>4 DEF Ended
  <2>3. \A e \in Devs : devState'[e] \in {"created", "deleting"} => e \in Handled /\ idiDevData'[e] # NULL
    BY <2>2 DEF Creations
  <2>4. ASSUME NEW e \in Handled, devState'[e] = "creating"
        PROVE  \E c \in Pending' : /\ log'[c].action = "IdiaCreate" /\ log'[c].dev = e
                                   /\ \A j \in Pending' : log'[j].dev = e => c <= j
    <3>1. devState[e] = "creating"
      BY <1>1, <2>2, <2>4
    <3>2. PICK c \in Pending : /\ log[c].action = "IdiaCreate" /\ log[c].dev = e
                               /\ \A j \in Pending : log[j].dev = e => c <= j
      BY <3>1 DEF Creations
    <3>3. c # cur
      BY <2>1, <2>2, <2>4, <3>2
    <3>. QED BY <2>1, <3>2, <3>3
  <2>. QED BY <2>1, <2>3, <2>4 DEF Creations
<1>. QED BY <1>2, <1>3, <1>4, <1>5, Moves DEF Setting

(* The results given so far stay.                                          *)
LEMMA GoneStays ==
  ASSUME NEW R, NEW Q, R \subseteq Q, NEW L, NEW M, \A a \in R : M[a.id] = L[a.id],
         NEW j, M[j] = L[j], Gone(R, L, j)
  PROVE  Gone(Q, M, j)
BY DEF Gone, Empties

LEMMA AnnouncementsStep ==
  ASSUME Setting, Background, Past, Creations, Announcements, [DriverNext]_vars
  PROVE  Announcements'
<1>1. /\ Pending \subseteq Ids /\ Ids \subseteq Nat /\ devState \in [Devs -> DevStates]
      /\ \A i \in Ids : log[i].dev \in Devs
      /\ \A i \in Ids : log[i].action \in DpActions => log[i].dp \in Dps
      /\ \A a \in Given : a.id \in Ids
      /\ Handled \subseteq Devs /\ QueueInv
  BY IdFacts, DevsAssumption DEF Background, RequestInv
<1>2. CASE Rests
  <2>1. UNCHANGED <<devState, idiDpData, log>> /\ Pending' = Pending /\ Given' = Given
    BY <1>2 DEF Rests, SameDevices, Given
  <2>. QED BY <2>1 DEF Announcements, SetUpAfter, Ids
<1>3. ASSUME NEW d \in Devs, NEW req, Called(d, req) PROVE Announcements'
  <2>0. PICK new \in Nat : new = Len(log) + 1
    BY IdFacts
  <2>1. /\ Pending' = Pending \cup {new} /\ Ids' = Ids \cup {new} /\ new \notin Ids
        /\ \A i \in Ids : log'[i] = log[i]
        /\ log'[new] = req /\ req.dev = d
    BY <1>3, <2>0, SendAddsPending DEF Called, Background, RequestInv
  <2>2. UNCHANGED idiDpData /\ Given' = Given
    BY <1>3, CallAdds DEF Given
  <2>3. /\ \A e \in Devs : devState[e] \notin {"absent", "dead"} => devState'[e] \notin {"absent", "dead"}
        /\ req.action = "IdiaDpCreate" => devState'[d] \notin {"absent", "dead"}
    BY <1>1, <1>3
       DEF Called, CallOf, IdlNewDev, IdlNewUnid, IdlStartDelete, allVars, idlVars, DpActions,
           Pollable, Setting
  <2>4. ASSUME NEW j \in Ids, Announcement(log', j) PROVE Gone(Given', log', j) \/ SetUpAfter(j)'
    <3>1. log'[j] = log[j] /\ Announcement(log, j)
      BY <2>1, <2>4 DEF Announcement
    <3>2. CASE Gone(Given, log, j)
      BY <1>1, <2>1, <2>2, <3>1, <3>2, GoneStays
    <3>3. CASE SetUpAfter(j)
      BY <1>1, <2>1, <2>2, <2>3, <3>1, <3>3 DEF SetUpAfter
    <3>. QED BY <3>1, <3>2, <3>3 DEF Announcements
  <2>5. Announcement(log', new) => SetUpAfter(new)'
    BY <2>1, <2>3 DEF Announcement, SetUpAfter
  <2>. QED BY <2>1, <2>4, <2>5 DEF Announcements
<1>4. ASSUME NEW d \in Devs, IdlFree(d) PROVE Announcements'
  <2>1. /\ UNCHANGED <<idiDevData, log>> /\ Pending' = Pending /\ Given' = Given
        /\ devState[d] = "dead" /\ devState' = [devState EXCEPT ![d] = "absent"]
        /\ \A e \in Devs \ {d} : idiDpData'[e] = idiDpData[e]
    BY <1>4, FreeClears DEF Given
  <2>2. ASSUME NEW j \in Ids, SetUpAfter(j) PROVE SetUpAfter(j)'
    BY <1>1, <2>1, <2>2 DEF SetUpAfter
  <2>. QED BY <2>1, <2>2 DEF Announcements, Ids
<1>5. ASSUME NEW d \in Devs, NEW err, Ended(d, err) PROVE Announcements'
  <2>1. /\ log' = log /\ Ids' = Ids /\ Pending' = Pending \ {cur} /\ d = log[cur].dev
        /\ cur \in Pending /\ cur \in Nat /\ cur # 0 /\ \A i \in Pending : cur <= i
    BY <1>1, <1>5, CurrentIsOldest DEF Ended, Req, Ids
  <2>2. Given \subseteq Given'
    <3>1. answered' = answered \/ \E val, mult : Answer(err, val, mult)
      BY <1>5 DEF Ended
    <3>. QED BY <3>1, GivenGrows DEF Given, Background, KnownInv
  <2>3. ASSUME \A e \in Devs : devState[e] \notin {"absent", "dead"} => devState'[e] \notin {"absent", "dead"},
               \A e \in Devs, p \in Dps : idiDpData[e][p] # NULL => idiDpData'[e][p] # NULL,
               Announcement(log, cur) /\ SetUpAfter(cur) => idiDpData'[log[cur].dev][log[cur].dp] # NULL
        PROVE  Announcements'
    <3>. SUFFICES ASSUME NEW j \in Ids, Announcement(log, j)
                  PROVE  Gone(Given', log, j) \/ SetUpAfter(j)'
      BY <2>1 DEF Announcements
    <3>1. CASE Gone(Given, log, j)
      BY <2>2, <3>1, GoneStays
    <3>2. CASE SetUpAfter(j)
      <4>1. log[j].dev \in Devs /\ log[j].dp \in Dps
        BY <1>1 DEF Announcement, DpActions
      <4>2. devState'[log[j].dev] \notin {"absent", "dead"}
        BY <2>3, <3>2, <4>1 DEF SetUpAfter
      <4>3. j \in Pending' \/ idiDpData'[log[j].dev][log[j].dp] # NULL
        BY <2>1, <2>3, <3>2, <4>1 DEF SetUpAfter
      <4>. QED BY <2>1, <4>2, <4>3 DEF SetUpAfter
    <3>. QED BY <3>1, <3>2 DEF Announcements
  <2>4. ASSUME Req.action # "IdiaDpCreate", idiDpData' = idiDpData,
               \A e \in Devs : devState[e] \notin {"absent", "dead"} => devState'[e] \notin {"absent", "dead"}
        PROVE  Announcements'
    BY <2>3, <2>4 DEF Announcement, Req
  <2>5. ASSUME Req.action = "IdiaDpCreate", NEW p \in Dps, p = Req.dp, DpCreate(d, p, err)
        PROVE  Announcements'
    <3>1. ASSUME Announcement(log, cur), SetUpAfter(cur)
          PROVE  idiDpData'[log[cur].dev][log[cur].dp] # NULL
      <4>1. d \in Handled /\ Address[p] < DevDpCounts
        BY <2>1, <2>5, <3>1 DEF Announcement, Req
      <4>2. devState[d] # "creating"
        <5>1. ASSUME NEW c \in Pending, log[c].action = "IdiaCreate",
                     \A j \in Pending : log[j].dev = d => c <= j
              PROVE  FALSE
          <6>1. c \in Nat /\ cur <= c
            BY <1>1, <2>1
          <6>2. c <= cur
            BY <2>1, <5>1
          <6>3. c = cur
            BY <2>1, <6>1, <6>2
          <6>. QED BY <2>5, <5>1, <6>3 DEF Req
        <5>. QED BY <4>1, <5>1 DEF Creations
      <4>3. devState[d] \in {"created", "deleting"}
        BY <1>1, <2>1, <3>1, <4>2 DEF SetUpAfter, DevStates
      <4>4. idiDevData[d] # NULL
        BY <4>3 DEF Creations
      <4>. QED BY <2>1, <2>5, <4>1, <4>4, DpCreateSetsUp DEF Req
    <3>. QED BY <2>3, <2>5, <3>1, DpCreateSetsUp
  <2>6. CASE Req.action = "IdiaCreate" /\ Create(d, err)
    <3>1. /\ idiDpData' = idiDpData /\ \A e \in Devs \ {d} : devState'[e] = devState[e]
          /\ d \in Handled => devState'[d] = "created"
      BY <1>1, <2>6, CreateStores DEF Setting
    <3>2. CASE d \in Handled
      BY <2>4, <2>6, <3>1, <3>2
    <3>3. CASE d \notin Handled
      <4>. SUFFICES ASSUME NEW j \in Ids, Announcement(log, j)
                    PROVE  Gone(Given', log, j) \/ SetUpAfter(j)'
        BY <2>1 DEF Announcements
      <4>1. log[j].dev \in Devs \ {d} /\ j # cur
        BY <1>1, <2>6, <3>3 DEF Announcement, Req
      <4>2. Gone(Given, log, j) => Gone(Given', log, j)
        BY <2>2, GoneStays
      <4>3. SetUpAfter(j) => SetUpAfter(j)'
        BY <2>1, <3>1, <4>1 DEF SetUpAfter
      <4>. QED BY <4>2, <4>3 DEF Announcements
    <3>. QED BY <3>2, <3>3
  <2>7. CASE Req.action = "IdiaDelete" /\ Delete(d, err) /\ Answer(err, 0, 1)
    <3>1. /\ idiDpData' = idiDpData /\ \A e \in Devs \ {d} : devState'[e] = devState[e]
          /\ err # IErr_Success => devState'[d] = "created"
      BY <1>1, <2>7, DeleteTakes
    <3>2. CASE err # IErr_Success
      BY <2>4, <2>7, <3>1, <3>2
    <3>3. CASE err = IErr_Success
      <4>. SUFFICES ASSUME NEW j \in Ids, Announcement(log, j)
                    PROVE  Gone(Given', log, j) \/ SetUpAfter(j)'
        BY <2>1 DEF Announcements
      <4>1. CASE log[j].dev # d
        <5>1. Gone(Given, log, j) => Gone(Given', log, j)
          BY <2>2, GoneStays
        <5>2. SetUpAfter(j) => SetUpAfter(j)'
          BY <1>1, <2>1, <3>1, <4>1 DEF SetUpAfter
        <5>. QED BY <5>1, <5>2 DEF Announcements
      <4>2. CASE log[j].dev = d
        <5>1. j \notin Pending
          <6>1. ASSUME j \in Pending PROVE j < cur
            <7>1. AsksDp(j)
              BY DEF AsksDp, Announcement, DpActions, Background, RequestInv, Requests
            <7>. QED BY <2>1, <2>7, <4>2, <6>1, <7>1 DEF Background, Follows, Req
          <6>. QED BY <1>1, <2>1, <6>1
        <5>2. j <= cur
          BY <1>1, <2>1, <5>1 DEF Past
        <5>. DEFINE n == [id |-> cur, err |-> err, val |-> 0, mult |-> 1]
        <5>3. n \in Given'
          BY <2>7, GivenGrows DEF Background, KnownInv
        <5>4. Empties(log, n, d) /\ j <= n.id
          BY <2>1, <2>7, <3>3, <5>2 DEF Empties, Req
        <5>. QED BY <4>2, <5>3, <5>4 DEF Gone
      <4>. QED BY <4>1, <4>2
    <3>. QED BY <3>2, <3>3
  <2>8. CASE Req.action # "IdiaDpCreate" /\ SameDevices
    BY <2>4, <2>8 DEF SameDevices
  <2>. QED BY <1>5, <2>5, <2>6, <2>7, <2>8 DEF Ended
<1>. QED BY <1>2, <1>3, <1>4, <1>5, Moves DEF Setting

-----------------------------------------------------------------------------
(* The property in these terms.                                            *)
Between(R, L, j, i) == \E x \in R : Empties(L, x, L[i].dev) /\ j <= x.id /\ x.id <= i

Announced(R, L, i) ==
  \E j \in 1..(i - 1) : /\ L[j].action = "IdiaDpCreate" /\ L[j].dev = L[i].dev /\ L[j].dp = L[i].dp
                        /\ ~Between(R, L, j, i)

ReadOf(L, i) == L[i].action = "IdiaDpread" /\ Address[L[i].dp] < DevDpCounts

Readable ==
  \A a \in Given : ReadOf(log, a.id) /\ Announced(Given, log, a.id) => a.err = IErr_Success

LEMMA ReadableGives ==
  ASSUME Background, Readable
  PROVE  AnnouncedIsReadable
<1>1. /\ Ids = 1..Len(log) /\ Len(log) \in Nat /\ \A a \in Given : a.id \in Ids /\ a.id \in Nat
  BY GivenFacts DEF Background
<1>2. ASSUME NEW i \in Ids, NEW j \in 1..(i - 1), Between(Given, log, j, i)
      PROVE  DeletedBetween(j, i)
  <2>1. PICK x \in Given : Empties(log, x, log[i].dev) /\ j <= x.id /\ x.id <= i
    BY <1>2 DEF Between
  <2>2. PICK k \in DOMAIN answered : answered[k] = x
    BY DEF Given
  <2>3. x.id \in j..i
    BY <1>1, <1>2, <2>1
  <2>. QED BY <2>1, <2>2, <2>3 DEF DeletedBetween, Empties
<1>. SUFFICES ASSUME NEW k \in DOMAIN answered, NEW a, a = answered[k], ReadOf(log, a.id),
                     NEW j \in 1..(a.id - 1), log[j].action = "IdiaDpCreate",
                     log[j].dev = log[a.id].dev, log[j].dp = log[a.id].dp,
                     ~DeletedBetween(j, a.id)
              PROVE  a.err = IErr_Success
  BY DEF AnnouncedIsReadable, ReadOf
<1>3. a \in Given
  BY DEF Given
<1>4. Announced(Given, log, a.id)
  BY <1>1, <1>2, <1>3 DEF Announced
<1>. QED BY <1>3, <1>4 DEF Readable

(* A longer list of results or requests announces no more of the old ones. *)
LEMMA AnnouncedBefore ==
  ASSUME NEW R, NEW Q, R \subseteq Q, NEW L, NEW M, NEW n \in Nat, NEW i \in 1..n,
         \A j \in 1..n : M[j] = L[j], \A a \in R : a.id \in 1..n, Announced(Q, M, i)
  PROVE  Announced(R, L, i)
<1>1. PICK j \in 1..(i - 1) : /\ M[j].action = "IdiaDpCreate" /\ M[j].dev = M[i].dev
                              /\ M[j].dp = M[i].dp /\ ~Between(Q, M, j, i)
  BY DEF Announced
<1>2. M[j] = L[j] /\ M[i] = L[i]
  OBVIOUS
<1>3. ~Between(R, L, j, i)
  BY <1>1, <1>2 DEF Between, Empties
<1>. QED BY <1>1, <1>2, <1>3 DEF Announced

(* A read of an announced datapoint finds it.                              *)
LEMMA ReadFinds ==
  ASSUME Setting, Background, Past, Creations, Numbers, Fillings, Announcements,
         NEW d \in Devs, cur # 0, d = Req.dev, NEW err, Reads(d, err),
         ReadOf(log, cur), Announced(Given, log, cur)
  PROVE  err = IErr_Success
<1>1. /\ Pending \subseteq Ids /\ Ids \subseteq Nat /\ Ids = 1..Len(log) /\ Len(log) \in Nat
      /\ cur \in Pending /\ cur \in Ids /\ cur \in Nat /\ \A i \in Pending : cur <= i
      /\ \A x \in Given : x.id < cur /\ x.id \in Nat
  BY IdFacts, CurrentIsOldest, GivenFacts DEF Background, RequestInv
<1>2. PICK j \in 1..(cur - 1) : /\ log[j].action = "IdiaDpCreate" /\ log[j].dev = log[cur].dev
                                /\ log[j].dp = log[cur].dp /\ ~Between(Given, log, j, cur)
  BY DEF Announced
<1>3. j \in Ids /\ j \notin Pending /\ j \in Nat
  BY <1>1
<1>4. log[j].dev = d /\ log[j].dp = Req.dp /\ d \in Handled
  BY <1>1, <1>2 DEF Req, Creations, ReadOf
<1>5. Announcement(log, j)
  BY <1>2, <1>4 DEF Announcement, ReadOf, Req
<1>6. ~Gone(Given, log, j)
  BY <1>1, <1>2 DEF Gone, Between
<1>7. SetUpAfter(j)
  BY <1>3, <1>5, <1>6 DEF Announcements
<1>8. devState[d] # "dead" /\ idiDpData[d][Req.dp] # NULL
  BY <1>3, <1>4, <1>7 DEF SetUpAfter
<1>9. SUFFICES ASSUME NEW p \in Dps, p = Req.dp, Address[p] \in Regs, Value(d, Address[p]) \in {NULL, Junk}
               PROVE  FALSE
  BY <1>8 DEF Reads
<1>10. Value(d, Address[p]) # NULL
  BY <1>8, <1>9 DEF Fillings
<1>11. Value(d, Address[p]) \in Nat
  BY <1>9, <1>10 DEF Numbers
<1>. QED BY <1>9, <1>10, <1>11 DEF Junk

LEMMA ReadableStep ==
  ASSUME Setting, Background, Past, Creations, Numbers, Fillings, Announcements, Readable,
         [DriverNext]_vars
  PROVE  Readable'
<1>1. /\ Ids = 1..Len(log) /\ Len(log) \in Nat /\ QueueInv
      /\ \A a \in Given : a.id \in Ids /\ a.id \in Nat
  BY GivenFacts DEF Background, RequestInv
<1>2. ASSUME Given \subseteq Given', \A i \in Ids : log'[i] = log[i], NEW a \in Given,
             ReadOf(log', a.id), Announced(Given', log', a.id)
      PROVE  a.err = IErr_Success
  <2>1. Announced(Given, log, a.id)
    BY <1>1, <1>2, AnnouncedBefore
  <2>. QED BY <1>1, <1>2, <2>1 DEF Readable, ReadOf
<1>3. ASSUME Given' = Given, \A i \in Ids : log'[i] = log[i] PROVE Readable'
  BY <1>2, <1>3 DEF Readable
<1>4. CASE Rests
  BY <1>3, <1>4 DEF Rests, Given
<1>5. ASSUME NEW d \in Devs, NEW req, Called(d, req) PROVE Readable'
  <2>1. \A i \in Ids : log'[i] = log[i]
    BY <1>1, <1>5, SendAddsPending DEF Called
  <2>. QED BY <1>3, <1>5, <2>1, CallAdds DEF Given
<1>6. ASSUME NEW d \in Devs, IdlFree(d) PROVE Readable'
  BY <1>3, <1>6, FreeClears DEF Given
<1>7. ASSUME NEW d \in Devs, NEW err, Ended(d, err) PROVE Readable'
  <2>1. cur # 0 /\ log' = log /\ d = Req.dev
    BY <1>7 DEF Ended
  <2>2. CASE answered' = answered
    BY <1>3, <2>1, <2>2 DEF Given
  <2>3. ASSUME NEW val, NEW mult, Answer(err, val, mult),
               Req.action = "IdiaDpread" => Reads(d, err)
        PROVE  Readable'
    <3>. DEFINE n == [id |-> cur, err |-> err, val |-> val, mult |-> mult]
    <3>1. Given' = Given \cup {n} /\ n.id = cur /\ n.err = err
      BY <2>3, GivenGrows DEF Background, KnownInv
    <3>2. ASSUME ReadOf(log, cur), Announced(Given', log, cur) PROVE err = IErr_Success
      <4>1. cur \in Ids
        BY CurrentIsOldest, IdFacts, <2>1 DEF Background, RequestInv
      <4>2. Announced(Given, log, cur)
        BY <1>1, <3>1, <3>2, <4>1, AnnouncedBefore
      <4>. QED BY <2>1, <2>3, <3>2, <4>2, ReadFinds DEF ReadOf, Req
    <3>. HIDE DEF n
    <3>. QED BY <1>2, <2>1, <3>1, <3>2 DEF Readable
  <2>. QED BY <1>7, <2>2, <2>3 DEF Ended
<1>. QED BY <1>4, <1>5, <1>6, <1>7, Moves DEF Setting

-----------------------------------------------------------------------------
LEMMA BackgroundHolds ==
  ASSUME EvPayloads = {}, IErr_IdiBusy \notin PublishRc, ~AllocFails, ~PollWhileDeleting
  PROVE  DriverSpec => []Background
<1>1. DriverInit => OrderInv /\ Blank /\ Bare /\ Follows
  BY DEF DriverInit, OrderInv, AnswersInOrder, StoreInit, Blank, Bare, NoDps, Follows, Pending
<1>2. DriverInv /\ OrderInv /\ [DriverNext]_vars => OrderInv'
  BY EveryStepIsQueueStep, OrderStep
<1>3. RequestInv /\ Bare /\ Follows /\ [DriverNext]_vars => Bare' /\ Follows'
  BY BareStep, FollowsStep
<1>4. KnownInv /\ Blank /\ [DriverNext]_vars => Blank'
  BY EveryStepTold DEF Silent, Told
<1>5. DriverSpec => [](SlotCount /\ NoLostBlock)
  BY DriverImplementsStore, SlotsAreCounted, NoBlockIsLost, PTL DEF StoreRefined
<1>6. DriverSpec => [](DriverInv /\ RequestInv /\ DpSlotsOwn /\ StoredIsLinked)
  BY DriverInvariant, RequestInvariant, DriverStorage, PTL
<1>7. DriverSpec => []OrderInv
  BY <1>1, <1>2, <1>6, PTL DEF DriverSpec
<1>8. DriverSpec => [](Bare /\ Follows)
  BY <1>1, <1>3, <1>6, PTL DEF DriverSpec
<1>9. DriverSpec => []Blank
  BY <1>1, <1>4, <1>6, <1>7, PTL DEF DriverSpec, KnownInv
<1>. QED BY <1>5, <1>6, <1>7, <1>8, <1>9, PTL DEF Background, KnownInv

(* A read answered by the library is a success when the datapoint has been *)
(* announced before it, a register of the driver's, and the device has not *)
(* been deleted in between: for any devices, registers and order of calls. *)
(* The driver must have room for all its devices, an allocation must not   *)
(* fail, and the library not poll a device it deletes.                     *)
THEOREM AnnouncedAreReadable ==
  ASSUME EvPayloads = {}, IErr_IdiBusy \notin PublishRc, ~ENABLE_SIMULATION, ~AllocFails,
         ~PollWhileDeleting, Room
  PROVE  DriverSpec => []AnnouncedIsReadable
<1>. DEFINE I == Past /\ Creations /\ Numbers /\ Fillings /\ Announcements /\ Readable
<1>1. DriverInit => I
  <2>. SUFFICES ASSUME DriverInit PROVE I
    OBVIOUS
  <2>1. log = <<>> /\ Ids = {} /\ Pending = {} /\ Given = {}
    BY DEF DriverInit, Ids, Pending, Given
  <2>2. \A d \in Devs : devState[d] = "absent" /\ idiDevData[d] = NULL /\ idiDpData[d] = NoDps
    BY DEF DriverInit, StoreInit
  <2>3. Past /\ Announcements /\ Readable
    BY <2>1 DEF Past, Announcements, Readable
  <2>4. Creations
    BY <2>1, <2>2, DevsAssumption DEF Creations
  <2>5. Numbers
    BY <2>2 DEF Numbers, Value
  <2>6. Fillings
    BY <2>2 DEF Fillings, NoDps
  <2>. QED BY <2>3, <2>4, <2>5, <2>6
<1>2. Background /\ I /\ [DriverNext]_vars => I'
  BY PastStep, CreationsStep, NumbersStep, AnnouncementsStep, ReadableStep DEF Setting
<1>3. Background /\ I => AnnouncedIsReadable
  BY ReadableGives
<1>. HIDE DEF I
<1>. QED BY <1>1, <1>2, <1>3, BackgroundHolds, PTL DEF DriverSpec
=============================================================================
