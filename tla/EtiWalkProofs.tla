---------------------------- MODULE EtiWalkProofs ----------------------------
(***************************************************************************)
(* The device list under both threads, statement by statement, for any     *)
(* number of nodes, UIDs and ev messages: the driver thread's statements   *)
(* leave one ring behind, and a walk of the ETI thread that no deletion    *)
(* overlaps stays in the list and comes to the device it looks for.        *)
(***************************************************************************)
EXTENDS EtiWalk, TLAPS

(* The nodes of L are one ring under nx, pv is the way back, and h is in   *)
(* it.  Stated of any two functions, as the list's own pointers are a ring *)
(* only between the driver thread's operations.                            *)
Ring(L, h, nx, pv) ==
  /\ L \subseteq Sto /\ h \in L
  /\ \A n \in L : nx[n] \in L /\ pv[n] \in L /\ pv[nx[n]] = n /\ nx[pv[n]] = n
  /\ \A S \in SUBSET L : (h \in S /\ \A n \in S : nx[n] \in S) => S = L

Pointers == [Sto -> Sto \cup {NULL}]

LEMMA RingLooksInside ==
  ASSUME NEW L, NEW h, NEW nx, NEW pv, NEW nx2, NEW pv2, Ring(L, h, nx, pv),
         \A n \in L : nx2[n] = nx[n] /\ pv2[n] = pv[n]
  PROVE  Ring(L, h, nx2, pv2)
BY DEF Ring

(* Any node of a ring may be its head.                                     *)
LEMMA AnyHead ==
  ASSUME NEW L, NEW h, NEW nx, NEW pv, Ring(L, h, nx, pv), NEW g \in L
  PROVE  Ring(L, g, nx, pv)
<1>. DEFINE Closed(C) == \A n \in C : nx[n] \in C
            R == {x \in L : \A C \in SUBSET L : (x \in C /\ Closed(C)) => h \in C}
<1>1. \A C \in SUBSET L : h \in C /\ Closed(C) => C = L
  BY DEF Ring
<1>2. h \in R
  BY DEF Ring
<1>3. ASSUME NEW x \in R  PROVE nx[x] \in R
  <2>. SUFFICES ASSUME NEW C \in SUBSET L, nx[x] \in C, Closed(C)  PROVE h \in C
    BY DEF Ring
  <2>1. C \cup {x} \in SUBSET L /\ Closed(C \cup {x})
    OBVIOUS
  <2>2. CASE x = h
    <3>1. C \cup {x} = L
      BY <1>1, <2>1, <2>2
    <3>2. pv[h] \in C \cup {h} /\ nx[pv[h]] = h
      BY <2>2, <3>1 DEF Ring
    <3>. QED BY <2>2, <3>2
  <2>3. CASE x # h
    BY <2>1, <2>3
  <2>. QED BY <2>2, <2>3
<1>4. R = L
  <2>1. R \in SUBSET L /\ Closed(R)
    BY <1>3
  <2>. QED BY <1>1, <1>2, <2>1
<1>5. ASSUME NEW S \in SUBSET L, g \in S, Closed(S)  PROVE S = L
  <2>1. h \in S
    BY <1>4, <1>5
  <2>. QED BY <1>1, <1>5, <2>1
<1>. QED BY <1>5 DEF Ring

(* A node that leads to itself is alone.                                   *)
LEMMA SelfIsAlone ==
  ASSUME NEW L, NEW h, NEW nx, NEW pv, Ring(L, h, nx, pv), NEW n \in L, nx[n] = n
  PROVE  L = {n}
<1>1. Ring(L, n, nx, pv)
  BY AnyHead
<1>2. {n} \in SUBSET L /\ n \in {n} /\ \A x \in {n} : nx[x] \in {n}
  OBVIOUS
<1>. QED BY <1>1, <1>2 DEF Ring

LEMMA AddNode ==
  ASSUME NEW L, NEW h, NEW nx \in Pointers, NEW pv \in Pointers, Ring(L, h, nx, pv),
         NEW n \in Sto \ L
  PROVE  Ring(L \cup {n}, h, [nx EXCEPT ![n] = h, ![pv[h]] = n],
                             [pv EXCEPT ![n] = pv[h], ![h] = n])
<1>. DEFINE l   == pv[h]
            nx2 == [nx EXCEPT ![n] = h, ![l] = n]
            pv2 == [pv EXCEPT ![n] = l, ![h] = n]
<1>1. /\ L \subseteq Sto /\ h \in L /\ l \in L /\ nx[l] = h /\ n \notin L
      /\ \A x \in L : nx[x] \in L /\ pv[x] \in L /\ pv[nx[x]] = x /\ nx[pv[x]] = x
  BY DEF Ring
<1>2. /\ nx2[n] = h /\ nx2[l] = n /\ \A x \in L \ {l} : nx2[x] = nx[x]
      /\ pv2[n] = l /\ pv2[h] = n /\ \A x \in L \ {h} : pv2[x] = pv[x]
  BY <1>1 DEF Pointers
<1>. HIDE DEF nx2, pv2
<1>3. \A x \in L \cup {n} : /\ nx2[x] \in L \cup {n} /\ pv2[x] \in L \cup {n}
                            /\ pv2[nx2[x]] = x /\ nx2[pv2[x]] = x
  <2>1. ASSUME NEW x \in L \ {l}  PROVE nx[x] # h
    BY <1>1
  <2>2. ASSUME NEW x \in L \ {h}  PROVE pv[x] # l
    BY <1>1
  <2>. QED BY <1>1, <1>2, <2>1, <2>2
<1>4. ASSUME NEW S \in SUBSET (L \cup {n}), h \in S, \A x \in S : nx2[x] \in S
      PROVE  S = L \cup {n}
  <2>1. \A x \in S \ {n} : nx[x] \in S \ {n}
    BY <1>1, <1>2, <1>4
  <2>2. S \ {n} \in SUBSET L /\ h \in S \ {n}
    BY <1>1, <1>4
  <2>3. S \ {n} = L
    BY <2>1, <2>2 DEF Ring
  <2>. QED BY <1>1, <1>2, <1>4, <2>3
<1>5. Ring(L \cup {n}, h, nx2, pv2)
  BY <1>1, <1>3, <1>4 DEF Ring
<1>. QED BY <1>5 DEF nx2, pv2

LEMMA RemoveNode ==
  ASSUME NEW L, NEW n, NEW nx \in Pointers, NEW pv \in Pointers, Ring(L, n, nx, pv),
         NEW h \in L \ {n}
  PROVE  Ring(L \ {n}, h, [nx EXCEPT ![pv[n]] = nx[n]], [pv EXCEPT ![nx[n]] = pv[n]])
<1>. DEFINE nx2 == [nx EXCEPT ![pv[n]] = nx[n]]
            pv2 == [pv EXCEPT ![nx[n]] = pv[n]]
<1>1. /\ L \subseteq Sto /\ n \in L
      /\ \A x \in L : nx[x] \in L /\ pv[x] \in L /\ pv[nx[x]] = x /\ nx[pv[x]] = x
  BY DEF Ring
<1>2. nx[n] # n /\ pv[n] # n
  BY <1>1, SelfIsAlone
<1>3. /\ nx2[pv[n]] = nx[n] /\ \A x \in L \ {pv[n]} : nx2[x] = nx[x]
      /\ pv2[nx[n]] = pv[n] /\ \A x \in L \ {nx[n]} : pv2[x] = pv[x]
  BY <1>1 DEF Pointers
<1>. HIDE DEF nx2, pv2
<1>4. \A x \in L \ {n} : /\ nx2[x] \in L \ {n} /\ pv2[x] \in L \ {n}
                         /\ pv2[nx2[x]] = x /\ nx2[pv2[x]] = x
  <2>1. ASSUME NEW x \in L, x # pv[n], x # n  PROVE nx[x] # n /\ nx[x] # nx[n]
    BY <1>1, <2>1
  <2>2. ASSUME NEW x \in L, x # nx[n], x # n  PROVE pv[x] # n /\ pv[x] # pv[n]
    BY <1>1, <2>2
  <2>. QED BY <1>1, <1>2, <1>3, <2>1, <2>2
<1>5. ASSUME NEW S \in SUBSET (L \ {n}), h \in S, \A x \in S : nx2[x] \in S
      PROVE  S = L \ {n}
  <2>1. CASE pv[n] \in S
    <3>1. \A x \in S \cup {n} : nx[x] \in S \cup {n}
      BY <1>1, <1>3, <1>5, <2>1
    <3>2. S \cup {n} \in SUBSET L /\ n \in S \cup {n}
      BY <1>1
    <3>3. S \cup {n} = L
      BY <3>1, <3>2 DEF Ring
    <3>. QED BY <3>3
  <2>2. CASE pv[n] \notin S
    <3>1. \A x \in S : nx[x] \in S
      BY <1>1, <1>3, <1>5, <2>2
    <3>2. Ring(L, h, nx, pv)
      BY AnyHead
    <3>3. S = L
      BY <1>5, <3>1, <3>2 DEF Ring
    <3>. QED BY <1>1, <3>3
  <2>. QED BY <2>1, <2>2
<1>6. Ring(L \ {n}, h, nx2, pv2)
  BY <1>1, <1>4, <1>5 DEF Ring
<1>. QED BY <1>6 DEF nx2, pv2

-----------------------------------------------------------------------------
(* The list is the ring of L, or empty with it.                            *)
Whole(L) ==
  IF L = {} THEN pHeadDevNode = NULL ELSE Ring(L, pHeadDevNode, pNext, pPrevious)

Places == {"idle", "fill", "publish", "back", "uid", "unnext", "unprev", "free"}

(* Where the driver thread's statements have got to, as the ring the list  *)
(* was or will be.                                                         *)
ListInv ==
  /\ RingTypeOK /\ alloc \subseteq Sto /\ dpc \in Places
  /\ \A n \in Sto \ alloc : pNext[n] = NULL /\ pPrevious[n] = NULL
  /\ dpc # "idle" => dnode \in alloc
  /\ dpc \in {"idle", "uid"} => Whole(alloc)
  /\ dpc \in {"fill", "publish", "free"} => Whole(alloc \ {dnode})
  /\ dpc = "fill" => pNext[dnode] = NULL /\ pPrevious[dnode] = NULL
  /\ dpc = "publish" =>
       IF pHeadDevNode = NULL THEN pNext[dnode] = dnode /\ pPrevious[dnode] = dnode
       ELSE pNext[dnode] = pHeadDevNode /\ pPrevious[dnode] = pPrevious[pHeadDevNode]
  /\ dpc = "back" =>
       /\ Ring(alloc \ {dnode}, pHeadDevNode,
               [pNext EXCEPT ![pPrevious[pHeadDevNode]] = pHeadDevNode], pPrevious)
       /\ pNext[pPrevious[pHeadDevNode]] = dnode
       /\ pNext[dnode] = pHeadDevNode /\ pPrevious[dnode] = pPrevious[pHeadDevNode]
  /\ dpc = "unnext" =>
       /\ pHeadDevNode \in alloc \ {dnode}
       /\ Ring(alloc, dnode, pNext, pPrevious)
  /\ dpc = "unprev" =>
       /\ pHeadDevNode \in alloc \ {dnode}
       /\ Ring(alloc, dnode, [pNext EXCEPT ![pPrevious[dnode]] = dnode], pPrevious)
       /\ pNext[pPrevious[dnode]] = pNext[dnode]

(* What a walk visits while the driver thread links a node.                *)
InList == IF dpc \in {"fill", "publish"} THEN alloc \ {dnode} ELSE alloc

LEMMA WholeIsWalked ==
  ASSUME RingTypeOK, NEW L, Whole(L)
  PROVE  Walked = L
<1>1. CASE L = {}
  BY <1>1 DEF Whole, Walked
<1>2. CASE L # {}
  <2>1. /\ Ring(L, pHeadDevNode, pNext, pPrevious) /\ pHeadDevNode \in L /\ L \subseteq Sto
        /\ \A n \in L : pNext[n] \in L
    BY <1>2 DEF Whole, Ring
  <2>2. pHeadDevNode # NULL /\ \A n \in L : pNext[n] # NULL
    BY <2>1, NULLAssumption
  <2>3. WalkClosed(L)
    BY <2>1 DEF WalkClosed
  <2>4. ASSUME NEW S \in SUBSET Sto, WalkClosed(S)  PROVE L \subseteq S
    <3>1. /\ S \cap L \in SUBSET L /\ pHeadDevNode \in S \cap L
          /\ \A n \in S \cap L : pNext[n] \in S \cap L
      BY <2>1, <2>2, <2>4 DEF WalkClosed
    <3>2. S \cap L = L
      BY <2>1, <3>1 DEF Ring
    <3>. QED BY <3>2
  <2>. QED BY <2>1, <2>2, <2>3, <2>4 DEF Walked
<1>. QED BY <1>1, <1>2

LEMMA WalkedInList ==
  ASSUME ListInv, ~Deleting
  PROVE  Walked = InList
<1>1. CASE dpc # "back"
  BY <1>1, WholeIsWalked DEF ListInv, Places, Deleting, InList
<1>2. CASE dpc = "back"
  <2>. DEFINE h   == pHeadDevNode
              l   == pPrevious[h]
              L   == alloc \ {dnode}
              nx0 == [pNext EXCEPT ![l] = h]
  <2>1. /\ Ring(L, h, nx0, pPrevious) /\ pNext[l] = dnode /\ pNext[dnode] = h
        /\ dnode \in alloc /\ alloc \subseteq Sto /\ pNext \in Pointers
    BY <1>2 DEF ListInv, RingTypeOK, Pointers
  <2>2. h \in L /\ l \in L /\ \A n \in L : nx0[n] \in L
    BY <2>1 DEF Ring
  <2>3. nx0[l] = h /\ \A n \in L \ {l} : nx0[n] = pNext[n]
    BY <2>1, <2>2 DEF Pointers
  <2>. HIDE DEF nx0, l
  <2>4. h # NULL /\ dnode # NULL /\ \A n \in L : pNext[n] # NULL
    BY <2>1, <2>2, <2>3, NULLAssumption
  <2>5. WalkClosed(alloc)
    BY <2>1, <2>2, <2>3 DEF WalkClosed
  <2>6. ASSUME NEW S \in SUBSET Sto, WalkClosed(S)  PROVE alloc \subseteq S
    <3>1. \A n \in S \cap L : nx0[n] \in S \cap L
      BY <2>2, <2>3, <2>4, <2>6 DEF WalkClosed
    <3>2. S \cap L \in SUBSET L /\ h \in S \cap L
      BY <2>2, <2>6 DEF WalkClosed
    <3>3. S \cap L = L
      BY <2>1, <3>1, <3>2 DEF Ring
    <3>4. dnode \in S
      BY <2>1, <2>2, <2>4, <2>6, <3>3 DEF WalkClosed
    <3>. QED BY <3>3, <3>4
  <2>. QED BY <1>2, <2>1, <2>4, <2>5, <2>6 DEF Walked, InList
<1>. QED BY <1>1, <1>2

-----------------------------------------------------------------------------
LEMMA ListInit == Init => ListInv
<1>. SUFFICES ASSUME Init  PROVE ListInv
  OBVIOUS
<1>1. /\ alloc = {} /\ dpc = "idle" /\ pHeadDevNode = NULL
      /\ pNext = [n \in Sto |-> NULL] /\ pPrevious = [n \in Sto |-> NULL]
  BY DEF Init, RingInit
<1>. QED BY <1>1 DEF ListInv, Whole, RingTypeOK, Places

(* A step that leaves the list and the driver thread's place in it alone.  *)
LEMMA QuietListStep ==
  ASSUME ListInv, UNCHANGED <<ringVars, alloc, dpc, dnode>>
  PROVE  ListInv'
BY DEF ListInv, ringVars, RingTypeOK, Whole

(* Linking.                                                                *)
LEMMA AllocKeepsList ==
  ASSUME ListInv, NEW n \in Sto, NEW u, AllocNode(n, u)
  PROVE  ListInv'
<1>1. /\ dpc = "idle" /\ dpc' = "fill" /\ dnode' = n /\ n \notin alloc
      /\ alloc' = alloc \cup {n} /\ UNCHANGED ringVars
  BY DEF AllocNode
<1>2. alloc' \ {dnode'} = alloc /\ Whole(alloc)
  BY <1>1 DEF ListInv
<1>3. Whole(alloc \ {dnode})'
  BY <1>1, <1>2 DEF Whole, ringVars
<1>. QED
  BY <1>1, <1>2, <1>3 DEF ListInv, Whole, ringVars, RingTypeOK, Places

LEMMA FillKeepsList ==
  ASSUME ListInv, FillNode
  PROVE  ListInv'
<1>. DEFINE L == alloc \ {dnode}
<1>1. /\ dpc = "fill" /\ dpc' = "publish" /\ UNCHANGED <<pHeadDevNode, alloc, dnode>>
      /\ dnode \in alloc /\ alloc \subseteq Sto /\ pNext \in Pointers /\ pPrevious \in Pointers
      /\ pHeadDevNode \in Sto \cup {NULL} /\ Whole(L)
  BY DEF FillNode, blockVars, ListInv, RingTypeOK, Pointers
<1>2. CASE L = {}
  <2>1. pHeadDevNode = NULL
    BY <1>1, <1>2 DEF Whole
  <2>2. /\ pNext' = [pNext EXCEPT ![dnode] = dnode]
        /\ pPrevious' = [pPrevious EXCEPT ![dnode] = dnode]
    BY <2>1 DEF FillNode
  <2>. QED BY <1>1, <1>2, <2>1, <2>2 DEF ListInv, RingTypeOK, Whole, Places, Pointers
<1>3. CASE L # {}
  <2>1. Ring(L, pHeadDevNode, pNext, pPrevious)
    BY <1>1, <1>3 DEF Whole
  <2>2. pHeadDevNode \in L /\ pHeadDevNode # NULL /\ pPrevious[pHeadDevNode] \in Sto
    BY <1>1, <2>1, NULLAssumption DEF Ring
  <2>3. /\ pNext' = [pNext EXCEPT ![dnode] = pHeadDevNode]
        /\ pPrevious' = [pPrevious EXCEPT ![dnode] = pPrevious[pHeadDevNode]]
    BY <2>2 DEF FillNode
  <2>4. /\ pNext' \in Pointers /\ pPrevious' \in Pointers
        /\ \A x \in Sto \ {dnode} : pNext'[x] = pNext[x] /\ pPrevious'[x] = pPrevious[x]
        /\ pNext'[dnode] = pHeadDevNode /\ pPrevious'[dnode] = pPrevious[pHeadDevNode]
    BY <1>1, <2>2, <2>3 DEF Pointers
  <2>5. Ring(L, pHeadDevNode, pNext', pPrevious')
    BY <1>1, <2>1, <2>4, RingLooksInside
  <2>6. RingTypeOK'
    BY <1>1, <2>4 DEF RingTypeOK, Pointers
  <2>7. Whole(alloc \ {dnode})'
    BY <1>1, <1>3, <2>5 DEF Whole
  <2>. QED BY <1>1, <2>2, <2>4, <2>6, <2>7 DEF ListInv, Places
<1>. QED BY <1>2, <1>3

LEMMA PublishKeepsList ==
  ASSUME ListInv, PublishOnly \/ PublishLast
  PROVE  ListInv'
<1>. DEFINE L == alloc \ {dnode}
<1>1. /\ dpc = "publish" /\ UNCHANGED <<pPrevious, alloc, dnode>>
      /\ dnode \in alloc /\ alloc \subseteq Sto /\ pNext \in Pointers /\ pPrevious \in Pointers
      /\ Whole(L) /\ dnode # NULL
  BY NULLAssumption
     DEF PublishOnly, PublishLast, blockVars, ListInv, RingTypeOK, Pointers
<1>2. CASE PublishOnly
  <2>1. /\ pHeadDevNode = NULL /\ pHeadDevNode' = dnode /\ dpc' = "uid" /\ pNext' = pNext
        /\ pNext[dnode] = dnode /\ pPrevious[dnode] = dnode
    BY <1>2 DEF PublishOnly, ListInv
  <2>2. L = {}
    BY <1>1, <2>1, NULLAssumption DEF Whole, Ring
  <2>3. alloc = {dnode}
    BY <1>1, <2>2
  <2>4. Ring(alloc, dnode, pNext, pPrevious)
    BY <1>1, <2>1, <2>3 DEF Ring
  <2>5. Whole(alloc)'
    BY <1>1, <2>1, <2>3, <2>4 DEF Whole
  <2>. QED BY <1>1, <2>1, <2>5 DEF ListInv, RingTypeOK, Places
<1>3. CASE PublishLast
  <2>. DEFINE h == pHeadDevNode
              l == pPrevious[h]
  <2>1. /\ h # NULL /\ h' = h /\ dpc' = "back" /\ pNext' = [pNext EXCEPT ![l] = dnode]
        /\ pNext[dnode] = h /\ pPrevious[dnode] = l
    BY <1>3 DEF PublishLast, ListInv
  <2>2. Ring(L, h, pNext, pPrevious)
    BY <1>1, <2>1 DEF Whole
  <2>3. l \in L /\ l \in Sto /\ pNext[l] = h /\ l # dnode /\ h \in Sto
    BY <1>1, <2>2 DEF Ring
  <2>4. [pNext' EXCEPT ![l] = h] = pNext
    BY <1>1, <2>1, <2>3 DEF Pointers
  <2>5. pNext'[l] = dnode /\ pNext'[dnode] = h /\ pNext' \in Pointers
    BY <1>1, <2>1, <2>3 DEF Pointers
  <2>6. \A n \in Sto \ alloc : pNext'[n] = pNext[n]
    BY <1>1, <2>1, <2>3 DEF Pointers
  <2>7. RingTypeOK'
    BY <1>1, <2>1, <2>3, <2>5 DEF RingTypeOK, Pointers
  <2>. QED BY <1>1, <2>1, <2>2, <2>4, <2>5, <2>6, <2>7 DEF ListInv, Places
<1>. QED BY <1>2, <1>3

LEMMA LinkBackKeepsList ==
  ASSUME ListInv, LinkBack
  PROVE  ListInv'
<1>. DEFINE h   == pHeadDevNode
            l   == pPrevious[h]
            L   == alloc \ {dnode}
            nx0 == [pNext EXCEPT ![l] = h]
<1>1. /\ dpc = "back" /\ dpc' = "uid" /\ UNCHANGED <<h, pNext, alloc, dnode>>
      /\ pPrevious' = [pPrevious EXCEPT ![h] = dnode]
      /\ dnode \in alloc /\ alloc \subseteq Sto /\ pNext \in Pointers /\ pPrevious \in Pointers
      /\ Ring(L, h, nx0, pPrevious) /\ pNext[l] = dnode /\ pNext[dnode] = h /\ pPrevious[dnode] = l
  BY DEF LinkBack, blockVars, ListInv, RingTypeOK, Pointers
<1>2. l \in L /\ h \in L /\ l \in Sto /\ h \in Sto /\ L \cup {dnode} = alloc
  BY <1>1 DEF Ring
<1>3. nx0 \in Pointers /\ dnode \in Sto \ L
  BY <1>1, <1>2 DEF Pointers
<1>4. Ring(alloc, h, [nx0 EXCEPT ![dnode] = h, ![l] = dnode],
                     [pPrevious EXCEPT ![dnode] = l, ![h] = dnode])
  <2>. HIDE DEF nx0, L
  <2>1. Ring(L \cup {dnode}, h, [nx0 EXCEPT ![dnode] = h, ![l] = dnode],
                                [pPrevious EXCEPT ![dnode] = l, ![h] = dnode])
    BY <1>1, <1>3, AddNode
  <2>. QED BY <1>2, <2>1
<1>5. /\ [nx0 EXCEPT ![dnode] = h, ![l] = dnode] = pNext
      /\ [pPrevious EXCEPT ![dnode] = l, ![h] = dnode] = pPrevious'
  BY <1>1, <1>2 DEF Pointers
<1>6. Whole(alloc)'
  BY <1>1, <1>4, <1>5 DEF Whole
<1>7. RingTypeOK' /\ \A n \in Sto \ alloc : pPrevious'[n] = pPrevious[n]
  BY <1>1, <1>2 DEF RingTypeOK, Pointers
<1>. QED BY <1>1, <1>6, <1>7 DEF ListInv, Places

(* Unlinking.                                                              *)
LEMMA UnlinkHeadKeepsList ==
  ASSUME ListInv, NEW n \in Sto, UnlinkHead(n)
  PROVE  ListInv'
<1>. DEFINE h == pHeadDevNode
<1>1. /\ dpc = "idle" /\ n \in Walked /\ dnode' = n /\ UNCHANGED <<pNext, pPrevious, alloc>>
      /\ Whole(alloc) /\ alloc \subseteq Sto /\ RingTypeOK
  BY DEF UnlinkHead, blockVars, ListInv
<1>2. n \in alloc
  BY <1>1, WholeIsWalked
<1>3. /\ Ring(alloc, h, pNext, pPrevious) /\ h \in alloc /\ pNext[n] \in alloc
      /\ NULL \notin alloc
  BY <1>1, <1>2, NULLAssumption DEF Whole, Ring
<1>4. Ring(alloc, n, pNext, pPrevious)
  BY <1>2, <1>3, AnyHead
<1>5. CASE n = h /\ pNext[n] = n
  <2>1. alloc = {n}
    BY <1>2, <1>3, <1>5, SelfIsAlone
  <2>2. h' = NULL /\ dpc' = "free"
    BY <1>5 DEF UnlinkHead
  <2>3. Whole(alloc \ {dnode})'
    BY <1>1, <2>1, <2>2 DEF Whole
  <2>. QED BY <1>1, <1>2, <2>2, <2>3 DEF ListInv, RingTypeOK, Places
<1>6. CASE ~(n = h /\ pNext[n] = n)
  <2>1. h' \in alloc \ {n} /\ dpc' = "unnext"
    BY <1>3, <1>6 DEF UnlinkHead
  <2>. QED BY <1>1, <1>2, <1>4, <2>1 DEF ListInv, RingTypeOK, Places
<1>. QED BY <1>5, <1>6

LEMMA UnlinkNextKeepsList ==
  ASSUME ListInv, UnlinkNext
  PROVE  ListInv'
<1>. DEFINE n == dnode
            l == pPrevious[n]
<1>1. /\ dpc = "unnext" /\ dpc' = "unprev" /\ UNCHANGED <<pHeadDevNode, pPrevious, alloc, n>>
      /\ pNext' = [pNext EXCEPT ![l] = pNext[n]]
      /\ n \in alloc /\ alloc \subseteq Sto /\ pNext \in Pointers /\ pPrevious \in Pointers
      /\ Ring(alloc, n, pNext, pPrevious) /\ pHeadDevNode \in alloc \ {n}
  BY DEF UnlinkNext, blockVars, ListInv, RingTypeOK, Pointers
<1>2. l \in alloc /\ l \in Sto /\ pNext[l] = n /\ pNext[n] \in Sto /\ pNext[n] # n
  BY <1>1, SelfIsAlone DEF Ring
<1>3. l # n
  BY <1>2
<1>4. /\ [pNext' EXCEPT ![l] = n] = pNext /\ pNext'[l] = pNext'[n] /\ pNext' \in Pointers
      /\ \A x \in Sto \ alloc : pNext'[x] = pNext[x]
  BY <1>1, <1>2, <1>3 DEF Pointers
<1>5. RingTypeOK'
  BY <1>1, <1>4 DEF ListInv, RingTypeOK, Pointers
<1>. QED BY <1>1, <1>4, <1>5 DEF ListInv, Places

LEMMA UnlinkPreviousKeepsList ==
  ASSUME ListInv, UnlinkPrevious
  PROVE  ListInv'
<1>. DEFINE n   == dnode
            l   == pPrevious[n]
            nx0 == [pNext EXCEPT ![l] = n]
<1>1. /\ dpc = "unprev" /\ dpc' = "free" /\ UNCHANGED <<pHeadDevNode, pNext, alloc, n>>
      /\ pPrevious' = [pPrevious EXCEPT ![pNext[n]] = l]
      /\ n \in alloc /\ alloc \subseteq Sto /\ pNext \in Pointers /\ pPrevious \in Pointers
      /\ Ring(alloc, n, nx0, pPrevious) /\ pHeadDevNode \in alloc \ {n}
      /\ pNext[l] = pNext[n]
  BY DEF UnlinkPrevious, blockVars, ListInv, RingTypeOK, Pointers
<1>2. l \in alloc /\ l \in Sto /\ nx0[l] = n /\ nx0 \in Pointers
  BY <1>1 DEF Ring, Pointers
<1>3. l # n
  <2>. SUFFICES ASSUME l = n  PROVE FALSE
    OBVIOUS
  <2>1. nx0[n] = n
    BY <1>2
  <2>. QED BY <1>1, <2>1, SelfIsAlone
<1>4. nx0[n] = pNext[n] /\ nx0[n] \in alloc
  BY <1>1, <1>2, <1>3 DEF Ring, Pointers
<1>5. Ring(alloc \ {n}, pHeadDevNode, [nx0 EXCEPT ![l] = nx0[n]],
           [pPrevious EXCEPT ![nx0[n]] = l])
  BY <1>1, <1>2, RemoveNode
<1>6. [nx0 EXCEPT ![l] = nx0[n]] = pNext /\ [pPrevious EXCEPT ![nx0[n]] = l] = pPrevious'
  BY <1>1, <1>2, <1>4 DEF Pointers
<1>7. Whole(alloc \ {n})'
  BY <1>1, <1>5, <1>6 DEF Whole
<1>8. RingTypeOK' /\ \A x \in Sto \ alloc : pPrevious'[x] = pPrevious[x]
  BY <1>1, <1>2, <1>4 DEF ListInv, RingTypeOK, Pointers
<1>. QED BY <1>1, <1>7, <1>8 DEF ListInv, Places

LEMMA FreeKeepsList ==
  ASSUME ListInv, FreeNode
  PROVE  ListInv'
<1>. DEFINE L == alloc \ {dnode}
<1>1. /\ dpc = "free" /\ dpc' = "idle" /\ pHeadDevNode' = pHeadDevNode /\ alloc' = L
      /\ pNext' = [pNext EXCEPT ![dnode] = NULL]
      /\ pPrevious' = [pPrevious EXCEPT ![dnode] = NULL]
      /\ dnode \in alloc /\ alloc \subseteq Sto /\ pNext \in Pointers /\ pPrevious \in Pointers
      /\ Whole(L)
  BY DEF FreeNode, ListInv, RingTypeOK, Pointers
<1>2. /\ pNext' \in Pointers /\ pPrevious' \in Pointers
      /\ \A x \in Sto \ {dnode} : pNext'[x] = pNext[x] /\ pPrevious'[x] = pPrevious[x]
      /\ pNext'[dnode] = NULL /\ pPrevious'[dnode] = NULL
  BY <1>1 DEF Pointers
<1>3. Whole(alloc)'
  <2>1. CASE L = {}
    BY <1>1, <2>1 DEF Whole
  <2>2. CASE L # {}
    <3>1. Ring(L, pHeadDevNode, pNext, pPrevious)
      BY <1>1, <2>2 DEF Whole
    <3>2. \A x \in L : pNext'[x] = pNext[x] /\ pPrevious'[x] = pPrevious[x]
      BY <1>1, <1>2
    <3>3. Ring(L, pHeadDevNode, pNext', pPrevious')
      BY <3>1, <3>2, RingLooksInside
    <3>. QED BY <1>1, <2>2, <3>3 DEF Whole
  <2>. QED BY <2>1, <2>2
<1>4. RingTypeOK'
  BY <1>1, <1>2 DEF ListInv, RingTypeOK, Pointers
<1>. QED BY <1>1, <1>2, <1>3, <1>4 DEF ListInv, Places

LEMMA ListStep == ListInv /\ [Next]_vars => ListInv'
<1>. SUFFICES ASSUME ListInv, [Next]_vars  PROVE ListInv'
  OBVIOUS
<1>1. CASE CopyUid
  <2>1. dpc = "uid" /\ dpc' = "idle" /\ UNCHANGED <<ringVars, alloc>>
    BY <1>1 DEF CopyUid
  <2>. QED BY <2>1 DEF ListInv, ringVars, RingTypeOK, Whole, Places
<1>2. CASE vTaskEtiDevAct \/ (\E u \in Uids : EtiMessageCb(u)) \/ UNCHANGED vars
  <2>1. UNCHANGED <<ringVars, alloc, dpc, dnode>>
    BY <1>2 DEF vTaskEtiDevAct, Receive, LoadHead, Compare, LoadNext, EndAtHead, DevRegEvHndl,
                FreeMessage, EtiMessageCb, vars, blockVars, driverVars
  <2>. QED BY <2>1, QuietListStep
<1>. QED BY <1>1, <1>2, AllocKeepsList, FillKeepsList, PublishKeepsList, LinkBackKeepsList,
            UnlinkHeadKeepsList, UnlinkNextKeepsList, UnlinkPreviousKeepsList, FreeKeepsList
         DEF Next, DriverThread

LEMMA ListInvariant == Spec => []ListInv
<1>. QED BY ListInit, ListStep, PTL DEF Spec

(* Between two of the driver thread's operations the list is one ring of   *)
(* exactly the allocated nodes, whichever statements of the ETI thread     *)
(* came in between: linking and unlinking need no lock of their own to be  *)
(* what DevRing says they are.                                             *)
THEOREM RingStaysWhole == Spec => []RingAtRest
<1>1. ListInv => RingAtRest
  <2>. SUFFICES ASSUME ListInv, dpc = "idle"
                PROVE  RingConsistent /\ WalkReachesAll /\ Linked = alloc
    BY DEF RingAtRest
  <2>1. /\ Whole(alloc) /\ RingTypeOK /\ alloc \subseteq Sto
        /\ \A n \in Sto \ alloc : pNext[n] = NULL /\ pPrevious[n] = NULL
    BY DEF ListInv
  <2>2. Walked = alloc
    BY <2>1, WholeIsWalked
  <2>3. CASE alloc = {}
    <3>1. Linked = {} /\ pHeadDevNode = NULL
      BY <2>1, <2>3 DEF Linked, Whole
    <3>. QED BY <2>1, <2>2, <2>3, <3>1 DEF RingConsistent, WalkReachesAll
  <2>4. CASE alloc # {}
    <3>1. /\ pHeadDevNode \in alloc
          /\ \A n \in alloc : /\ pNext[n] \in alloc /\ pPrevious[n] \in alloc
                              /\ pPrevious[pNext[n]] = n /\ pNext[pPrevious[n]] = n
      BY <2>1, <2>4 DEF Whole, Ring
    <3>2. Linked = alloc
      BY <2>1, <3>1, NULLAssumption DEF Linked
    <3>. QED BY <2>1, <2>2, <2>4, <3>1, <3>2 DEF RingConsistent, WalkReachesAll
  <2>. QED BY <2>3, <2>4
<1>. QED BY <1>1, ListInvariant, PTL

-----------------------------------------------------------------------------
(* No two nodes have the same UID, a new node's is nobody else's and not   *)
(* copied yet, and messages name UIDs.                                     *)
UidInv ==
  /\ devUid \in [Sto -> Uids \cup {NULL}] /\ regVal \in [Sto -> Uids \cup {NULL}]
  /\ \A m, n \in alloc : (devUid[m] = devUid[n] /\ devUid[m] # NULL) => m = n
  /\ \A n \in Sto \ alloc : devUid[n] = NULL
  /\ dpc \in {"fill", "publish", "back", "uid"} =>
       devUid[dnode] = NULL /\ duid \in Uids /\ \A m \in alloc : devUid[m] # duid
  /\ etiDevActQueue \in Seq(Uids)
  /\ epc \in {"idle", "head", "compare", "next", "end", "found", "done"}
  /\ epc # "idle" => euid \in Uids

LEMMA UidStep == ListInv /\ UidInv /\ [Next]_vars => UidInv'
<1>. SUFFICES ASSUME ListInv, UidInv, [Next]_vars  PROVE UidInv'
  OBVIOUS
<1>. USE DEF blockVars, driverVars, etiVars, queueVars
<1>1. ASSUME UNCHANGED <<devUid, regVal, alloc>>, UNCHANGED <<epc, euid, etiDevActQueue>>,
             UNCHANGED <<dnode, duid>>,
             \/ dpc' \notin {"fill", "publish", "back", "uid"}
             \/ dpc \in {"fill", "publish", "back", "uid"}
      PROVE  UidInv'
  BY <1>1 DEF UidInv
<1>2. ASSUME NEW n \in Sto, NEW u \in Uids, AllocNode(n, u)  PROVE UidInv'
  <2>1. /\ dpc = "idle" /\ dpc' = "fill" /\ n \notin alloc /\ \A m \in alloc : devUid[m] # u
        /\ alloc' = alloc \cup {n} /\ dnode' = n /\ duid' = u
        /\ UNCHANGED <<devUid, regVal, epc, euid, etiDevActQueue>>
    BY <1>2 DEF AllocNode
  <2>2. devUid[n] = NULL /\ u # NULL
    BY <2>1, UidsAssumption DEF UidInv
  <2>. QED BY <2>1, <2>2 DEF UidInv
<1>3. ASSUME NEW n \in Sto, UnlinkHead(n)  PROVE UidInv'
  BY <1>3 DEF UidInv, UnlinkHead
<1>4. CASE FillNode \/ PublishOnly \/ PublishLast \/ LinkBack
  BY <1>1, <1>4 DEF FillNode, PublishOnly, PublishLast, LinkBack
<1>5. CASE UnlinkNext \/ UnlinkPrevious
  BY <1>1, <1>5 DEF UnlinkNext, UnlinkPrevious
<1>6. CASE CopyUid
  <2>1. /\ dpc = "uid" /\ dpc' = "idle" /\ UNCHANGED <<alloc, regVal, epc, euid, etiDevActQueue>>
        /\ devUid' = [devUid EXCEPT ![dnode] = duid] /\ dnode \in alloc /\ alloc \subseteq Sto
    BY <1>6 DEF CopyUid, ListInv
  <2>2. /\ devUid' \in [Sto -> Uids \cup {NULL}] /\ devUid'[dnode] = duid
        /\ \A m \in Sto \ {dnode} : devUid'[m] = devUid[m]
    BY <2>1 DEF UidInv
  <2>. QED BY <2>1, <2>2 DEF UidInv
<1>7. CASE FreeNode
  <2>1. /\ dpc = "free" /\ dpc' = "idle" /\ UNCHANGED <<epc, euid, etiDevActQueue>>
        /\ alloc' = alloc \ {dnode} /\ dnode \in alloc /\ alloc \subseteq Sto
        /\ devUid' = [devUid EXCEPT ![dnode] = NULL]
        /\ regVal' = [regVal EXCEPT ![dnode] = NULL]
    BY <1>7 DEF FreeNode, ListInv
  <2>2. /\ devUid' \in [Sto -> Uids \cup {NULL}] /\ regVal' \in [Sto -> Uids \cup {NULL}]
        /\ devUid'[dnode] = NULL /\ \A m \in Sto \ {dnode} : devUid'[m] = devUid[m]
    BY <2>1 DEF UidInv
  <2>. QED BY <2>1, <2>2 DEF UidInv
<1>8. CASE Receive
  <2>1. Head(etiDevActQueue) \in Uids /\ Tail(etiDevActQueue) \in Seq(Uids)
    BY <1>8 DEF UidInv, Receive
  <2>. QED BY <1>8, <2>1 DEF UidInv, Receive
<1>9. CASE LoadHead \/ Compare \/ LoadNext \/ EndAtHead \/ FreeMessage
  BY <1>9 DEF UidInv, LoadHead, Compare, LoadNext, EndAtHead, FreeMessage
<1>10. CASE DevRegEvHndl
  BY <1>10 DEF UidInv, DevRegEvHndl
<1>11. ASSUME NEW u \in Uids, EtiMessageCb(u)  PROVE UidInv'
  BY <1>11 DEF UidInv, EtiMessageCb
<1>12. CASE UNCHANGED vars
  BY <1>1, <1>12 DEF vars
<1>. QED BY <1>2, <1>3, <1>4, <1>5, <1>6, <1>7, <1>8, <1>9, <1>10, <1>11, <1>12
         DEF Next, DriverThread, vTaskEtiDevAct

LEMMA UidInvariant == Spec => []UidInv
<1>1. Init => UidInv
  BY DEF Init, UidInv
<1>. QED BY <1>1, ListInvariant, UidStep, PTL DEF Spec

-----------------------------------------------------------------------------
(* What a walk that stands at x has still to come to: the nodes in every   *)
(* set that holds x and that following pNext leaves only at the head.      *)
AheadClosed(S) == \A y \in S : pNext[y] \in Sto \ {pHeadDevNode} => pNext[y] \in S

Ahead(x) == {n \in Sto : \A S \in SUBSET Sto : (x \in S /\ AheadClosed(S)) => n \in S}

Underway == ~disturbed /\ epc \notin {"idle", "head"}

(* A walk no deletion overlaps stands in the list, and has the node it     *)
(* looks for in front of it until it finds it.                             *)
WalkInv ==
  Underway =>
    /\ ~Deleting
    /\ epc # "done" => enode \in Walked
    /\ target # NULL =>
         /\ target \in alloc /\ devUid[target] = euid
         /\ epc \in {"compare", "next", "end"} => target \in Ahead(enode)
         /\ epc = "next" => target # enode
         /\ epc = "end" => enode # pHeadDevNode
         /\ epc = "found" => target = enode
         /\ epc = "done" => regVal[target] = euid

LEMMA WalkedInListNext == (ListInv /\ ~Deleting => Walked = InList)'
<1>1. ListInv /\ ~Deleting => Walked = InList
  BY WalkedInList
<1>. QED BY <1>1, PTL

LEMMA WalkedGoesOn ==
  ASSUME ListInv, ~Deleting, NEW n \in Walked
  PROVE  pNext[n] \in Walked /\ n \in Sto /\ n \in alloc
<1>1. /\ pNext \in Pointers /\ n \in Sto /\ n \in InList /\ alloc \subseteq Sto
      /\ InList \subseteq alloc
  BY WalkedInList DEF ListInv, RingTypeOK, Pointers, Walked, InList
<1>2. pNext[n] # NULL
  <2>1. CASE dpc # "back"
    <3>1. Whole(InList) /\ InList # {}
      BY <1>1, <2>1 DEF ListInv, Places, Deleting, InList
    <3>2. pNext[n] \in InList
      BY <1>1, <3>1 DEF Whole, Ring
    <3>. QED BY <1>1, <3>2, NULLAssumption
  <2>2. CASE dpc = "back"
    <3>. DEFINE h   == pHeadDevNode
                nx0 == [pNext EXCEPT ![pPrevious[h]] = h]
    <3>1. /\ Ring(alloc \ {dnode}, h, nx0, pPrevious)
          /\ pNext[pPrevious[h]] = dnode /\ pNext[dnode] = h /\ dnode \in alloc
      BY <2>2 DEF ListInv
    <3>2. h \in Sto /\ dnode \in Sto /\ \A x \in alloc \ {dnode} : nx0[x] \in Sto
      BY <1>1, <3>1 DEF Ring
    <3>3. n = dnode \/ n = pPrevious[h] \/ pNext[n] = nx0[n]
      BY <1>1 DEF Pointers
    <3>. QED BY <1>1, <3>1, <3>2, <3>3, NULLAssumption
  <2>. QED BY <2>1, <2>2
<1>3. pNext[n] \in Sto
  BY <1>1, <1>2 DEF Pointers
<1>4. ASSUME NEW S \in SUBSET Sto, WalkClosed(S)  PROVE pNext[n] \in S
  BY <1>2, <1>4 DEF Walked, WalkClosed
<1>. QED BY <1>1, <1>3, <1>4 DEF Walked

(* Linking a node takes nothing away from a walk.                          *)
Linking ==
  \/ \E n \in Sto, u \in Uids : AllocNode(n, u)
  \/ FillNode \/ PublishOnly \/ PublishLast \/ LinkBack \/ CopyUid

LEMMA LinkingKeepsWalk ==
  ASSUME ListInv, ListInv', UidInv, Linking
  PROVE  /\ ~Deleting /\ ~Deleting' /\ UNCHANGED <<etiVars, disturbed, regVal>>
         /\ alloc \subseteq alloc' /\ Walked \subseteq Walked'
         /\ \A n \in alloc : devUid[n] # NULL => devUid'[n] = devUid[n]
         /\ Walked # {} =>
              /\ pHeadDevNode' = pHeadDevNode
              /\ \A S \in SUBSET Sto : AheadClosed(S)' => AheadClosed(S)
<1>. USE DEF blockVars, driverVars
<1>1. ~Deleting /\ ~Deleting' /\ UNCHANGED <<etiVars, disturbed, regVal>>
  BY DEF Linking, Deleting, AllocNode, FillNode, PublishOnly, PublishLast, LinkBack, CopyUid
<1>2. alloc \subseteq alloc' /\ InList \subseteq InList'
  BY DEF Linking, InList, AllocNode, FillNode, PublishOnly, PublishLast, LinkBack, CopyUid
<1>3. Walked \subseteq Walked'
  BY <1>1, <1>2, WalkedInList, WalkedInListNext
<1>4. \A n \in alloc : devUid[n] # NULL => devUid'[n] = devUid[n]
  <2>1. CASE CopyUid
    BY <2>1 DEF CopyUid, UidInv
  <2>2. CASE ~CopyUid
    BY <2>2 DEF Linking, AllocNode, FillNode, PublishOnly, PublishLast, LinkBack
  <2>. QED BY <2>1, <2>2
<1>5. ASSUME Walked # {}
      PROVE  /\ pHeadDevNode' = pHeadDevNode
             /\ \A S \in SUBSET Sto : AheadClosed(S)' => AheadClosed(S)
  <2>1. pHeadDevNode # NULL /\ pNext \in Pointers
    BY <1>5 DEF Walked, ListInv, RingTypeOK, Pointers
  <2>2. pHeadDevNode' = pHeadDevNode
    BY <2>1 DEF Linking, AllocNode, FillNode, PublishOnly, PublishLast, LinkBack, CopyUid, ringVars
  <2>3. \A y \in Sto : pNext'[y] = pNext[y] \/ pNext[y] \in {NULL, pHeadDevNode}
    <3>1. CASE FillNode
      <4>1. /\ pNext[dnode] = NULL
            /\ pNext' = [pNext EXCEPT ![dnode] = pHeadDevNode]
        BY <2>1, <3>1 DEF FillNode, ListInv
      <4>. QED BY <2>1, <4>1 DEF Pointers
    <3>2. CASE PublishLast
      <4>1. pNext' = [pNext EXCEPT ![pPrevious[pHeadDevNode]] = dnode]
        BY <3>2 DEF PublishLast
      <4>2. pNext[pPrevious[pHeadDevNode]] = pHeadDevNode
        BY <2>1, <3>2 DEF PublishLast, ListInv, Whole, Ring
      <4>. QED BY <2>1, <4>1, <4>2 DEF Pointers
    <3>. QED BY <3>1, <3>2
             DEF Linking, AllocNode, PublishOnly, LinkBack, CopyUid, ringVars
  <2>. QED BY <2>2, <2>3, NULLAssumption DEF AheadClosed
<1>. QED BY <1>1, <1>2, <1>3, <1>4, <1>5

(* Where a walk starts, and that it goes on to what is ahead of it.        *)
LEMMA AheadOfHead ==
  ASSUME pHeadDevNode # NULL, RingTypeOK
  PROVE  Walked \subseteq Ahead(pHeadDevNode)
<1>. SUFFICES ASSUME NEW n \in Walked, NEW S \in SUBSET Sto, pHeadDevNode \in S, AheadClosed(S)
              PROVE  n \in S
  BY DEF Ahead, Walked
<1>. QED BY DEF Walked, WalkClosed, AheadClosed, RingTypeOK

LEMMA AheadGoesOn ==
  ASSUME NEW x \in Sto, pNext[x] \in Sto, NEW n \in Ahead(x), n # x
  PROVE  pNext[x] # pHeadDevNode /\ n \in Ahead(pNext[x])
<1>1. pNext[x] # pHeadDevNode
  <2>. SUFFICES ASSUME pNext[x] = pHeadDevNode  PROVE n \in {x}
    OBVIOUS
  <2>1. {x} \in SUBSET Sto /\ x \in {x} /\ AheadClosed({x})
    BY DEF AheadClosed
  <2>. QED BY <2>1 DEF Ahead
<1>2. ASSUME NEW S \in SUBSET Sto, pNext[x] \in S, AheadClosed(S)  PROVE n \in S
  <2>1. S \cup {x} \in SUBSET Sto /\ AheadClosed(S \cup {x})
    BY <1>2 DEF AheadClosed
  <2>. QED BY <2>1 DEF Ahead
<1>. QED BY <1>1, <1>2 DEF Ahead

LEMMA WalkStep == ListInv /\ ListInv' /\ UidInv /\ WalkInv /\ [Next]_vars => WalkInv'
<1>. SUFFICES ASSUME ListInv, ListInv', UidInv, WalkInv, [Next]_vars, Underway'
              PROVE  /\ ~Deleting'
                     /\ epc' # "done" => enode' \in Walked'
                     /\ target' # NULL =>
                          /\ target' \in alloc' /\ devUid'[target'] = euid'
                          /\ epc' \in {"compare", "next", "end"} => target' \in Ahead(enode)'
                          /\ epc' = "next" => target' # enode'
                          /\ epc' = "end" => enode' # pHeadDevNode'
                          /\ epc' = "found" => target' = enode'
                          /\ epc' = "done" => regVal'[target'] = euid'
  BY DEF WalkInv
<1>. USE DEF blockVars, driverVars, etiVars, queueVars
<1>1. CASE Linking
  <2>1. /\ ~Deleting' /\ UNCHANGED <<epc, enode, euid, target, disturbed, regVal>>
        /\ alloc \subseteq alloc' /\ Walked \subseteq Walked'
        /\ \A n \in alloc : devUid[n] # NULL => devUid'[n] = devUid[n]
    BY <1>1, LinkingKeepsWalk
  <2>2. Underway /\ (epc # "done" => enode \in Walked')
    BY <2>1 DEF Underway, WalkInv
  <2>3. ASSUME target # NULL
        PROVE  /\ target \in alloc' /\ devUid'[target] = euid
               /\ epc \in {"compare", "next", "end"} => target \in Ahead(enode)'
               /\ epc = "end" => enode # pHeadDevNode'
    <3>1. /\ target \in alloc /\ devUid[target] = euid /\ euid # NULL
          /\ epc \in {"compare", "next", "end"} => target \in Ahead(enode)
          /\ epc = "end" => enode # pHeadDevNode
      BY <2>2, <2>3, UidsAssumption DEF WalkInv, UidInv, Underway
    <3>2. CASE epc \in {"compare", "next", "end"}
      <4>1. enode \in Walked
        BY <2>2, <3>2 DEF WalkInv
      <4>2. /\ pHeadDevNode' = pHeadDevNode
            /\ \A S \in SUBSET Sto : AheadClosed(S)' => AheadClosed(S)
        BY <1>1, <4>1, LinkingKeepsWalk
      <4>3. target \in Ahead(enode)'
        BY <3>1, <3>2, <2>1, <4>2 DEF Ahead
      <4>. QED BY <2>1, <3>1, <4>2, <4>3
    <3>. QED BY <2>1, <3>1, <3>2
  <2>. QED BY <2>1, <2>2, <2>3 DEF WalkInv
<1>2. ASSUME NEW n \in Sto, UnlinkHead(n)  PROVE FALSE
  BY <1>2 DEF UnlinkHead, Underway
<1>3. CASE UnlinkNext \/ UnlinkPrevious \/ FreeNode
  <2>1. Deleting /\ UNCHANGED <<epc, disturbed>>
    BY <1>3 DEF UnlinkNext, UnlinkPrevious, FreeNode, Deleting
  <2>. QED BY <2>1 DEF WalkInv, Underway
<1>4. ASSUME UNCHANGED <<ringVars, alloc, devUid, dpc, disturbed>>
      PROVE  /\ Walked' = Walked /\ Deleting' = Deleting /\ pHeadDevNode' = pHeadDevNode
             /\ \A x : Ahead(x)' = Ahead(x)
  BY <1>4 DEF Walked, WalkClosed, Deleting, Ahead, AheadClosed, ringVars
<1>5. CASE Receive \/ FreeMessage
  BY <1>5 DEF Receive, FreeMessage, Underway
<1>6. CASE LoadHead
  <2>1. /\ UNCHANGED <<ringVars, blockVars, driverVars, euid>> /\ enode' = pHeadDevNode
        /\ target' = NodeOf(euid) /\ disturbed' = Deleting
        /\ epc' = IF pHeadDevNode = NULL THEN "done" ELSE "compare"
    BY <1>6 DEF LoadHead
  <2>2. Walked' = Walked /\ ~Deleting /\ ~Deleting' /\ \A x : Ahead(x)' = Ahead(x)
    BY <2>1 DEF Underway, Walked, WalkClosed, Deleting, Ahead, AheadClosed, ringVars
  <2>3. CASE pHeadDevNode = NULL
    <3>1. target' = NULL
      BY <2>1, <2>3 DEF NodeOf, Walked
    <3>. QED BY <2>1, <2>2, <2>3, <3>1
  <2>4. CASE pHeadDevNode # NULL
    <3>1. pHeadDevNode \in Walked
      BY <2>4 DEF Walked, WalkClosed, ListInv, RingTypeOK
    <3>2. ASSUME target' # NULL
          PROVE  target' \in Walked /\ devUid[target'] = euid /\ target' \in Ahead(pHeadDevNode)
      <4>1. target' \in Walked /\ devUid[target'] = euid
        BY <2>1, <3>2 DEF NodeOf
      <4>. QED BY <2>4, <4>1, AheadOfHead DEF ListInv
    <3>3. Walked \subseteq alloc
      BY <2>2, WalkedInList DEF InList
    <3>. QED BY <2>1, <2>2, <2>4, <3>1, <3>2, <3>3
  <2>. QED BY <2>3, <2>4
<1>7. CASE Compare
  <2>1. /\ UNCHANGED <<ringVars, blockVars, driverVars, euid, enode, target, disturbed>>
        /\ epc = "compare" /\ enode \in alloc
        /\ epc' = IF devUid[enode] = euid THEN "found" ELSE "next"
    BY <1>7 DEF Compare
  <2>2. Underway /\ euid # NULL
    BY <2>1, UidsAssumption DEF Underway, UidInv
  <2>3. target # NULL /\ devUid[enode] = euid => target = enode
    BY <2>1, <2>2 DEF WalkInv, UidInv
  <2>. QED BY <1>4, <2>1, <2>2, <2>3 DEF WalkInv
<1>8. CASE LoadNext
  <2>1. /\ UNCHANGED <<ringVars, blockVars, driverVars, euid, target, disturbed>>
        /\ epc = "next" /\ epc' = "end" /\ enode' = pNext[enode]
    BY <1>8 DEF LoadNext
  <2>2. Underway /\ ~Deleting /\ enode \in Walked
    BY <2>1 DEF Underway, WalkInv
  <2>3. pNext[enode] \in Walked /\ enode \in Sto /\ pNext[enode] \in Sto
    BY <2>2, WalkedGoesOn DEF Walked
  <2>4. target # NULL => pNext[enode] # pHeadDevNode /\ target \in Ahead(pNext[enode])
    BY <2>1, <2>2, <2>3, AheadGoesOn DEF WalkInv
  <2>. QED BY <1>4, <2>1, <2>2, <2>3, <2>4 DEF WalkInv
<1>9. CASE EndAtHead
  <2>1. /\ UNCHANGED <<ringVars, blockVars, driverVars, euid, enode, target, disturbed>>
        /\ epc = "end"
        /\ epc' = IF enode = pHeadDevNode \/ enode = NULL THEN "done" ELSE "compare"
    BY <1>9 DEF EndAtHead
  <2>2. Underway /\ enode # NULL
    BY <2>1, NULLAssumption DEF Underway, WalkInv, Walked
  <2>. QED BY <1>4, <2>1, <2>2 DEF WalkInv
<1>10. CASE DevRegEvHndl
  <2>1. /\ UNCHANGED <<ringVars, alloc, devUid, driverVars, euid, enode, target, disturbed>>
        /\ epc = "found" /\ epc' = "done" /\ enode \in alloc
        /\ regVal' = [regVal EXCEPT ![enode] = euid]
    BY <1>10 DEF DevRegEvHndl
  <2>2. Underway /\ regVal'[enode] = euid
    BY <2>1 DEF Underway, UidInv, ListInv
  <2>. QED BY <1>4, <2>1, <2>2 DEF WalkInv
<1>11. CASE (\E u \in Uids : EtiMessageCb(u)) \/ UNCHANGED vars
  <2>1. UNCHANGED <<ringVars, blockVars, driverVars, etiVars, disturbed>>
    BY <1>11 DEF EtiMessageCb, vars
  <2>2. Underway
    BY <2>1 DEF Underway
  <2>. QED BY <1>4, <2>1, <2>2 DEF WalkInv
<1>. QED BY <1>1, <1>2, <1>3, <1>5, <1>6, <1>7, <1>8, <1>9, <1>10, <1>11
         DEF Next, DriverThread, vTaskEtiDevAct, Linking

LEMMA WalkInvariant == Spec => [](ListInv /\ WalkInv)
<1>1. Init => WalkInv
  BY DEF Init, WalkInv, Underway
<1>2. ListInv /\ ListInv' /\ UidInv /\ WalkInv /\ [Next]_vars => WalkInv'
  BY WalkStep
<1>. QED BY <1>1, <1>2, ListInvariant, UidInvariant, PTL DEF Spec

(* A walk that no deletion overlaps looks only into allocated nodes that   *)
(* are in the list, however many nodes are linked meanwhile.               *)
THEOREM WalksAreSafe == Spec => []UndisturbedWalkIsSafe
<1>1. ListInv /\ WalkInv => UndisturbedWalkIsSafe
  BY WalkedGoesOn DEF WalkInv, Underway, UsesNode, UndisturbedWalkIsSafe
<1>. QED BY <1>1, WalkInvariant, PTL

(* And it does not miss the device that had the UID when it began.         *)
THEOREM EventsReachDevices == Spec => []EventReachesDevice
<1>1. WalkInv => EventReachesDevice
  BY DEF WalkInv, Underway, EventReachesDevice
<1>. QED BY <1>1, WalkInvariant, PTL
=============================================================================
