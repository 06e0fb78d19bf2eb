--------------------------- MODULE AmfXdpSmpProofs ---------------------------
(***************************************************************************)
(* What holds of amf_xdp_enforce() on any number of CPUs, whatever they    *)
(* and the loader interleave to.                                           *)
(***************************************************************************)
EXTENDS AmfXdpSmp, FiniteSetTheorems, TLAPS

-----------------------------------------------------------------------------
(***************************************************************************)
(* The inductive invariant.                                                *)
(***************************************************************************)
\* The CPUs with a message of s that has not been counted yet, and how many
\* messages of s have been.
Uncounted == Steps \ {"idle", "pass", "drop"}
Pending(s) == { c \in CPUs : pc[c] \in Uncounted /\ loc[c].src = s }
Counted(s) == Len(arrived[s]) - Cardinality(Pending(s))

\* The elements of the rate map that belong to s: the one in the map, and those
\* that CPUs at work on s have a pointer to.
Held(s) ==
    { x \in RateElems : \/ rate_elem[s] = x
                        \/ \E c \in CPUs : pc[c] \in Holding /\ loc[c].src = s /\ loc[c].e = x }

\* Each element belongs to one source.
OneOwner == \A s, u \in Sources : \A x \in Held(s) : x \in Held(u) => s = u

\* No counter, nor the value a CPU is about to store in one, is ahead of the
\* messages counted: an update may be lost, and none is made twice.
CountsBehind ==
    \A s \in Sources : \A x \in Held(s) :
        rate_entry[x].count >= 1 /\ rate_entry[x].count <= Counted(s)

StoresBehind ==
    \A c \in CPUs, s \in Sources :
        pc[c] = "count_store" /\ loc[c].src = s => loc[c].n >= 1 /\ loc[c].n <= Counted(s) + 1

DropsExceed ==
    \A c \in CPUs : pc[c] = "drop" => Len(arrived[loc[c].src]) > RATE_MAX_PER_WIN

\* All this holds until an element is reused.
RateInv ==
    /\ \A s \in Sources : Counted(s) >= 0
    /\ ~reused => OneOwner /\ CountsBehind /\ StoresBehind /\ DropsExceed
    /\ QuietSourceNeverDropped

\* sm_edges: each entry has an element of its own, which holds its edge, and the
\* one that is being filled, or will be next, is none of them.
EdgesApart ==
    /\ populate.run = 0 =>
         spare = 0 /\ \A i \in Edges : edge_elem[i] = IF i < populate.next THEN i ELSE NULL
    /\ populate.run > 0 => \A i \in Edges : edge_elem[i] # NULL
    /\ \A i \in Edges : edge_elem[i] # spare
    /\ \A i, j \in Edges : edge_elem[i] = edge_elem[j] /\ edge_elem[i] # NULL => i = j
    /\ populate.new # NULL =>
         populate.new = FreeElem /\ edge_to[populate.new]["head"] = EdgeVal(populate.next)

EdgesHold ==
    \A i \in Edges : edge_elem[i] # NULL => edge_to[edge_elem[i]] = Whole(EdgeVal(i))

\* What a CPU is copying, or has copied part p of, is the state an InitialUEMessage
\* leads to, unless the element was refilled under it.
Copying == {"to_head", "to_tail"}
Copied(p) == IF p = "head" THEN {"to_tail", "ue_fill", "ue_link"} ELSE {"ue_fill", "ue_link"}
FromEdge(c, name, p) ==
    name[p] \in FsmStates /\ (~loc[c].late => name[p] = "REG_RECEIVED")

PointersHold ==
    \A c \in CPUs : pc[c] \in Copying =>
        /\ \A p \in Parts : FromEdge(c, edge_to[loc[c].edge], p)
        /\ populate.new = loc[c].edge => loc[c].late

CopiesHold ==
    \A c \in CPUs, p \in Parts : pc[c] \in Copied(p) => FromEdge(c, loc[c].name, p)

\* ue_state_map: an element is that of one source, or being filled by one CPU.
UeApart ==
    /\ \A s, u \in Sources : ue_elem[s] = ue_elem[u] /\ ue_elem[s] # NULL => s = u
    /\ \A c \in CPUs : pc[c] = "ue_link" =>
         /\ \A s \in Sources : ue_elem[s] # loc[c].new
         /\ \A d \in CPUs : pc[d] = "ue_link" /\ loc[d].new = loc[c].new => d = c
         /\ ue_state[loc[c].new]["head"] = loc[c].name["head"]

StateInv == EdgesApart /\ EdgesHold /\ PointersHold /\ CopiesHold /\ UeApart /\ UeStateFromTable

SmpInv == TypeOK /\ EveryPacketCounted /\ RateInv /\ StateInv

-----------------------------------------------------------------------------
(***************************************************************************)
(* Types.                                                                  *)
(***************************************************************************)
LEMMA BoundsNat ==
    /\ RATE_MAX_PER_WIN \in Nat /\ RATE_MAX_PER_WIN >= 1
    /\ EdgesModelled \in Nat /\ EdgesModelled >= 1 /\ EdgesModelled <= Len(sm_edge_data)
    /\ MaxTime \in Nat /\ MaxRx \in Nat /\ MaxAged \in Nat /\ MaxPopulates \in Nat
    /\ NULL \notin RateElems /\ NULL \notin UeElems /\ NULL \notin 0..EdgesModelled
    /\ IsFiniteSet(CPUs)
BY SmpAssumption

\* What one assignment to a CPU's locals gives.
LEMMA SetLocals ==
    ASSUME NEW r \in Locals
    PROVE  /\ \A s \in Sources, t \in 0..MaxTime :
                 [r EXCEPT !.src = s, !.t = t] \in Locals
           /\ \A x \in UeElems \cup {NULL} : [r EXCEPT !.ue = x] \in Locals
           /\ \A x \in Text : [r EXCEPT !.name = x] \in Locals
           /\ \A x \in EdgeElems \cup {NULL} : [r EXCEPT !.edge = x] \in Locals
           /\ \A x \in BOOLEAN : [r EXCEPT !.late = x] \in Locals
           /\ \A x \in UeElems \cup {NULL} : [r EXCEPT !.new = x] \in Locals
           /\ \A x \in RateElems \cup {NULL} : [r EXCEPT !.e = x] \in Locals
           /\ \A n \in Nat : [r EXCEPT !.n = n] \in Locals
BY DEF Locals

LEMMA GetLocals ==
    ASSUME NEW r \in Locals
    PROVE  /\ r.src \in Sources \cup {NULL} /\ r.t \in 0..MaxTime
           /\ r.ue \in UeElems \cup {NULL} /\ r.name \in Text
           /\ r.edge \in EdgeElems \cup {NULL} /\ r.late \in BOOLEAN
           /\ r.new \in UeElems \cup {NULL}
           /\ r.e \in RateElems \cup {NULL} /\ r.n \in Nat
BY DEF Locals

\* The fields an assignment leaves alone, and the one it sets.
LEMMA KeptLocals ==
    ASSUME NEW r \in Locals, NEW x, NEW y
    PROVE  /\ [r EXCEPT !.src = x, !.t = y].src = x
           /\ [r EXCEPT !.src = x, !.t = y].e = r.e
           /\ [r EXCEPT !.e = x].src = r.src /\ [r EXCEPT !.e = x].e = x
           /\ [r EXCEPT !.n = x].src = r.src /\ [r EXCEPT !.n = x].e = r.e
           /\ [r EXCEPT !.n = x].n = x
BY DEF Locals

LEMMA SetPart ==
    ASSUME NEW x \in Text, NEW p \in Parts, NEW y \in FsmStates \cup {"UE/gNB", NULL}
    PROVE  /\ [x EXCEPT ![p] = y] \in Text /\ x[p] \in FsmStates \cup {"UE/gNB", NULL}
           /\ [x EXCEPT ![p] = y][p] = y
           /\ \A q \in Parts : q # p => [x EXCEPT ![p] = y][q] = x[q]
           /\ Whole(y) \in Text /\ \A q \in Parts : Whole(y)[q] = y
BY DEF Text, Whole

\* A step of CPU c leaves the locals of the others alone.
OnlyCpu(c) ==
    /\ pc' \in [CPUs -> Steps] /\ loc' \in [CPUs -> Locals]
    /\ \A d \in CPUs : d # c => pc'[d] = pc[d] /\ loc'[d] = loc[d]

LEMMA OneCpu ==
    ASSUME TypeOK, NEW c \in CPUs, NEW p \in Steps, NEW l \in Locals,
           pc' = [pc EXCEPT ![c] = p], loc' = [loc EXCEPT ![c] = l]
    PROVE  OnlyCpu(c) /\ pc'[c] = p /\ loc'[c] = l
BY DEF TypeOK, OnlyCpu

LEMMA OneCpuPc ==
    ASSUME TypeOK, NEW c \in CPUs, NEW p \in Steps,
           pc' = [pc EXCEPT ![c] = p], UNCHANGED loc
    PROVE  OnlyCpu(c) /\ pc'[c] = p /\ loc'[c] = loc[c]
BY DEF TypeOK, OnlyCpu

(***************************************************************************)
(* What each step of the program does to its CPU.                          *)
(***************************************************************************)
LEMMA ReceiveDoes ==
    ASSUME TypeOK, NEW c \in CPUs, NEW src \in Sources, Receive(c, src)
    PROVE  /\ OnlyCpu(c) /\ pc[c] = "idle" /\ pc'[c] = "ue_lookup"
           /\ loc'[c].src = src
<1>1. loc[c] \in Locals /\ now \in 0..MaxTime
  BY DEF TypeOK
<1>2. [loc[c] EXCEPT !.src = src, !.t = now] \in Locals
  BY <1>1, SetLocals
<1>3. loc' = [loc EXCEPT ![c] = [loc[c] EXCEPT !.src = src, !.t = now]]
  BY DEF Receive
<1>4. pc[c] = "idle" /\ pc' = [pc EXCEPT ![c] = "ue_lookup"] /\ "ue_lookup" \in Steps
  BY DEF Receive, Goto, Steps
<1>5. /\ OnlyCpu(c) /\ pc'[c] = "ue_lookup"
      /\ loc'[c] = [loc[c] EXCEPT !.src = src, !.t = now]
  BY <1>2, <1>3, <1>4, OneCpu
<1>6. QED
  BY <1>1, <1>4, <1>5, KeptLocals

LEMMA UeLookupDoes ==
    ASSUME TypeOK, NEW c \in CPUs, UeLookup(c)
    PROVE  /\ OnlyCpu(c) /\ pc[c] = "ue_lookup" /\ pc'[c] \in {"edge_lookup", "from_head"}
           /\ loc'[c].src = loc[c].src /\ (pc'[c] = "from_head" => loc'[c].ue # NULL)
<1> DEFINE ue == ue_elem[loc[c].src]
           name == IF ue = NULL THEN Whole("UE/gNB") ELSE Whole(NULL)
           p == IF ue = NULL THEN "edge_lookup" ELSE "from_head"
           l == [loc[c] EXCEPT !.ue = ue, !.name = name]
<1>1. pc[c] = "ue_lookup" /\ pc' = [pc EXCEPT ![c] = p] /\ p \in Steps
  BY DEF UeLookup, Goto, Steps
<1>2. loc[c] \in Locals /\ loc[c].src \in Sources /\ ue \in UeElems \cup {NULL} /\ name \in Text
  BY <1>1, SetPart DEF TypeOK, InFlight, Whole, Text
<1>3. loc' = [loc EXCEPT ![c] = l]
  BY <1>2 DEF UeLookup, TypeOK
<1>4. ue # NULL <=> p = "from_head"
  OBVIOUS
<1>5. p \in {"edge_lookup", "from_head"}
  OBVIOUS
<1> HIDE DEF ue, name, p
<1>6. l \in Locals /\ l.src = loc[c].src /\ l.ue = ue
  BY <1>2 DEF Locals
<1>7. OnlyCpu(c) /\ pc'[c] = p /\ loc'[c] = l
  BY <1>1, <1>3, <1>6, OneCpu
<1>8. QED
  BY <1>1, <1>4, <1>5, <1>6, <1>7

LEMMA FromHeadDoes ==
    ASSUME TypeOK, NEW c \in CPUs, FromHead(c)
    PROVE  /\ OnlyCpu(c) /\ pc[c] = "from_head" /\ pc'[c] = "from_tail"
           /\ loc'[c].src = loc[c].src /\ loc'[c].ue # NULL
<1> DEFINE l == [loc[c] EXCEPT !.name = [loc[c].name EXCEPT !["head"] = ue_state[loc[c].ue]["head"]]]
<1>1. pc[c] = "from_head" /\ pc' = [pc EXCEPT ![c] = "from_tail"] /\ "from_tail" \in Steps
  BY DEF FromHead, Goto, Steps
<1>2. loc[c] \in Locals /\ loc[c].ue \in UeElems /\ loc[c].ue # NULL /\ loc[c].name \in Text
  BY <1>1, GetLocals, BoundsNat DEF TypeOK
<1>3. ue_state[loc[c].ue] \in Text /\ "head" \in Parts
  BY <1>2 DEF TypeOK, Parts
<1>4. [loc[c].name EXCEPT !["head"] = ue_state[loc[c].ue]["head"]] \in Text
  BY <1>2, <1>3 DEF Text
<1>5. loc' = [loc EXCEPT ![c] = l]
  BY <1>2 DEF FromHead, TypeOK
<1>6. l \in Locals /\ l.src = loc[c].src /\ l.ue = loc[c].ue
  BY <1>2, <1>4 DEF Locals
<1> HIDE DEF l
<1>7. QED
  BY <1>1, <1>2, <1>5, <1>6, OneCpu

LEMMA FromTailDoes ==
    ASSUME TypeOK, NEW c \in CPUs, FromTail(c)
    PROVE  /\ OnlyCpu(c) /\ pc[c] = "from_tail" /\ pc'[c] = "edge_lookup"
           /\ loc'[c].src = loc[c].src
<1> DEFINE l == [loc[c] EXCEPT !.name = [loc[c].name EXCEPT !["tail"] = ue_state[loc[c].ue]["tail"]],
                               !.ue = NULL]
<1>1. pc[c] = "from_tail" /\ pc' = [pc EXCEPT ![c] = "edge_lookup"] /\ "edge_lookup" \in Steps
  BY DEF FromTail, Goto, Steps
<1>2. loc[c] \in Locals /\ loc[c].ue \in UeElems /\ loc[c].name \in Text
  BY <1>1, GetLocals DEF TypeOK
<1>3. ue_state[loc[c].ue] \in Text /\ "tail" \in Parts
  BY <1>2 DEF TypeOK, Parts
<1>4. [loc[c].name EXCEPT !["tail"] = ue_state[loc[c].ue]["tail"]] \in Text
  BY <1>2, <1>3 DEF Text
<1>5. loc' = [loc EXCEPT ![c] = l]
  BY <1>2 DEF FromTail, TypeOK
<1>6. l \in Locals /\ l.src = loc[c].src
  BY <1>2, <1>4 DEF Locals
<1> HIDE DEF l
<1>7. QED
  BY <1>1, <1>5, <1>6, OneCpu

\* The edge found is one that an InitialUEMessage takes.
LEMMA EdgeLookupDoes ==
    ASSUME TypeOK, NEW c \in CPUs, EdgeLookup(c)
    PROVE  /\ OnlyCpu(c) /\ pc[c] = "edge_lookup" /\ pc'[c] \in {"flag", "to_head"}
           /\ loc'[c].src = loc[c].src
           /\ pc'[c] = "to_head" =>
                \E i \in Edges : /\ edge_elem[i] # NULL /\ loc'[c].edge = edge_elem[i]
                                 /\ EdgeVal(i) = "REG_RECEIVED"
<1> DEFINE hits == { i \in Edges : /\ edge_elem[i] # NULL
                                   /\ loc[c].name = Whole(EdgeKey(i)[1])
                                   /\ sm_key_set_label("InitialUEMessage") = EdgeKey(i)[2] }
           x == IF hits = {} THEN NULL ELSE edge_elem[CHOOSE i \in hits : TRUE]
           p == IF hits = {} THEN "flag" ELSE "to_head"
           l == [loc[c] EXCEPT !.name = Whole(NULL), !.edge = x]
<1>1. pc[c] = "edge_lookup" /\ pc' = [pc EXCEPT ![c] = p] /\ p \in Steps
  BY DEF EdgeLookup, Goto, Steps
<1>2. loc[c] \in Locals /\ Whole(NULL) \in Text
  BY DEF TypeOK, Whole, Text
<1>3. hits # {} => \E i \in hits : x = edge_elem[i]
  <2> HIDE DEF hits
  <2> QED
    OBVIOUS
<1>4. x \in EdgeElems \cup {NULL}
  BY <1>3 DEF TypeOK
<1>5. \A i \in hits : EdgeVal(i) = "REG_RECEIVED"
  <2> SUFFICES ASSUME NEW i \in hits
               PROVE  EdgeVal(i) = "REG_RECEIVED"
    OBVIOUS
  <2>1. i \in 1..Len(sm_edge_data)
    BY BoundsNat DEF Edges
  <2>2. EdgeKey(i)[2] = "InitialUEMessage"
    BY InitialUeAssumption
  <2>3. QED
    BY <2>1, <2>2, InitialUeAssumption
<1>6. loc' = [loc EXCEPT ![c] = l]
  BY <1>2 DEF EdgeLookup, TypeOK
<1>7. p = "to_head" => \E i \in Edges : /\ edge_elem[i] # NULL /\ x = edge_elem[i]
                                        /\ EdgeVal(i) = "REG_RECEIVED"
  BY <1>3, <1>5
<1>8. p \in {"flag", "to_head"}
  OBVIOUS
<1> HIDE DEF x, p
<1>9. l \in Locals /\ l.src = loc[c].src /\ l.edge = x
  BY <1>2, <1>4 DEF Locals
<1>10. OnlyCpu(c) /\ pc'[c] = p /\ loc'[c] = l
  BY <1>1, <1>6, <1>9, OneCpu
<1>11. QED
  BY <1>1, <1>7, <1>8, <1>9, <1>10

\* The two halves of the copy out of the element.
LEMMA ToHeadDoes ==
    ASSUME TypeOK, NEW c \in CPUs, ToHead(c)
    PROVE  /\ OnlyCpu(c) /\ pc[c] = "to_head" /\ pc'[c] = "to_tail"
           /\ loc[c].edge \in EdgeElems
           /\ loc'[c].src = loc[c].src /\ loc'[c].edge = loc[c].edge
           /\ loc'[c].late = loc[c].late
           /\ loc'[c].name["head"] = edge_to[loc[c].edge]["head"]
<1> DEFINE name == [loc[c].name EXCEPT !["head"] = edge_to[loc[c].edge]["head"]]
           l == [loc[c] EXCEPT !.name = name]
<1>1. pc[c] = "to_head" /\ pc' = [pc EXCEPT ![c] = "to_tail"] /\ "to_tail" \in Steps
  BY DEF ToHead, Goto, Steps
<1>2. loc[c] \in Locals /\ loc[c].edge \in EdgeElems /\ loc[c].name \in Text
  BY <1>1, GetLocals DEF TypeOK
<1>3. edge_to[loc[c].edge] \in Text /\ "head" \in Parts
  BY <1>2 DEF TypeOK, Parts
<1>4. name \in Text /\ name["head"] = edge_to[loc[c].edge]["head"]
  BY <1>2, <1>3 DEF Text
<1>5. loc' = [loc EXCEPT ![c] = l]
  BY <1>2 DEF ToHead, TypeOK
<1> HIDE DEF name
<1>6. /\ l \in Locals /\ l.src = loc[c].src /\ l.edge = loc[c].edge /\ l.late = loc[c].late
      /\ l.name = name
  BY <1>2, <1>4 DEF Locals
<1> HIDE DEF l
<1>7. OnlyCpu(c) /\ pc'[c] = "to_tail" /\ loc'[c] = l
  BY <1>1, <1>5, <1>6, OneCpu
<1>8. QED
  BY <1>1, <1>2, <1>4, <1>6, <1>7

LEMMA ToTailDoes ==
    ASSUME TypeOK, NEW c \in CPUs, ToTail(c)
    PROVE  /\ OnlyCpu(c) /\ pc[c] = "to_tail" /\ pc'[c] = "ue_fill"
           /\ loc[c].edge \in EdgeElems
           /\ loc'[c].src = loc[c].src /\ loc'[c].late = loc[c].late
           /\ loc'[c].name["head"] = loc[c].name["head"]
           /\ loc'[c].name["tail"] = edge_to[loc[c].edge]["tail"]
<1> DEFINE name == [loc[c].name EXCEPT !["tail"] = edge_to[loc[c].edge]["tail"]]
           l == [loc[c] EXCEPT !.name = name, !.edge = NULL]
<1>1. pc[c] = "to_tail" /\ pc' = [pc EXCEPT ![c] = "ue_fill"] /\ "ue_fill" \in Steps
  BY DEF ToTail, Goto, Steps
<1>2. loc[c] \in Locals /\ loc[c].edge \in EdgeElems /\ loc[c].name \in Text
  BY <1>1, GetLocals DEF TypeOK
<1>3. edge_to[loc[c].edge] \in Text /\ "head" \in Parts /\ "tail" \in Parts
  BY <1>2 DEF TypeOK, Parts
<1>4. /\ name \in Text /\ name["tail"] = edge_to[loc[c].edge]["tail"]
      /\ name["head"] = loc[c].name["head"]
  BY <1>2, <1>3 DEF Text
<1>5. loc' = [loc EXCEPT ![c] = l]
  BY <1>2 DEF ToTail, TypeOK
<1> HIDE DEF name
<1>6. l \in Locals /\ l.src = loc[c].src /\ l.late = loc[c].late /\ l.name = name
  BY <1>2, <1>4 DEF Locals
<1> HIDE DEF l
<1>7. OnlyCpu(c) /\ pc'[c] = "ue_fill" /\ loc'[c] = l
  BY <1>1, <1>5, <1>6, OneCpu
<1>8. QED
  BY <1>1, <1>2, <1>4, <1>6, <1>7

LEMMA UeFillDoes ==
    ASSUME TypeOK, NEW c \in CPUs, UeFill(c)
    PROVE  \E x \in UeElems :
             /\ ~Filling(x) /\ \A s \in Sources : ue_elem[s] # x
             /\ OnlyCpu(c) /\ pc[c] = "ue_fill" /\ pc'[c] = "ue_link"
             /\ loc'[c].src = loc[c].src /\ loc'[c].late = loc[c].late
             /\ loc'[c].name = loc[c].name /\ loc'[c].new = x
             /\ ue_state' \in [UeElems -> Text] /\ ue_state'[x]["head"] = loc[c].name["head"]
             /\ \A y \in UeElems : y # x => ue_state'[y] = ue_state[y]
<1>1. PICK x \in UeElems :
        /\ ~Filling(x) /\ \A s \in Sources : ue_elem[s] # x
        /\ Goto(c, "ue_fill", "ue_link")
        /\ ue_state' = [ue_state EXCEPT ![x]["head"] = loc[c].name["head"]]
        /\ loc' = [loc EXCEPT ![c].new = x]
  BY Zenon DEF UeFill
<1>2. pc[c] = "ue_fill" /\ pc' = [pc EXCEPT ![c] = "ue_link"] /\ "ue_link" \in Steps
  BY <1>1 DEF Goto, Steps
<1>3. loc[c] \in Locals /\ loc[c].name \in Text /\ ue_state \in [UeElems -> Text] /\ "head" \in Parts
  BY GetLocals DEF TypeOK, Parts
<1> DEFINE l == [loc[c] EXCEPT !.new = x]
           name == [ue_state[x] EXCEPT !["head"] = loc[c].name["head"]]
<1>4. loc' = [loc EXCEPT ![c] = l]
  BY <1>1
<1>5. /\ l \in Locals /\ l.src = loc[c].src /\ l.late = loc[c].late /\ l.name = loc[c].name
      /\ l.new = x
  BY <1>3 DEF Locals
<1>6. name \in Text /\ name["head"] = loc[c].name["head"]
  BY <1>3 DEF Text
<1>7. ue_state' = [ue_state EXCEPT ![x] = name]
  BY <1>1
<1> HIDE DEF l, name
<1>8. OnlyCpu(c) /\ pc'[c] = "ue_link" /\ loc'[c] = l
  BY <1>2, <1>4, <1>5, OneCpu
<1>9. /\ ue_state' \in [UeElems -> Text] /\ ue_state'[x] = name
      /\ \A y \in UeElems : y # x => ue_state'[y] = ue_state[y]
  BY <1>3, <1>6, <1>7
<1>10. QED
  BY <1>1, <1>2, <1>5, <1>6, <1>8, <1>9

LEMMA UeLinkDoes ==
    ASSUME TypeOK, NEW c \in CPUs, UeLink(c)
    PROVE  /\ OnlyCpu(c) /\ pc[c] = "ue_link" /\ pc'[c] = "rate_lookup"
           /\ loc[c].new \in UeElems /\ loc[c].src \in Sources
           /\ loc'[c].src = loc[c].src
           /\ ue_elem' \in [Sources -> UeElems \cup {NULL}]
           /\ \A s \in Sources : ue_elem'[s] = IF s = loc[c].src THEN loc[c].new ELSE ue_elem[s]
           /\ overtaken' \in [Sources -> BOOLEAN]
           /\ overtaken'[loc[c].src] = loc[c].late
           /\ \A s \in Sources : s # loc[c].src => overtaken'[s] = overtaken[s]
           /\ ue_state' \in [UeElems -> Text]
           /\ ue_state'[loc[c].new]["head"] = ue_state[loc[c].new]["head"]
           /\ ue_state'[loc[c].new]["tail"] = loc[c].name["tail"]
           /\ \A y \in UeElems : y # loc[c].new => ue_state'[y] = ue_state[y]
<1> DEFINE x == loc[c].new
           l == [loc[c] EXCEPT !.name = Whole(NULL), !.new = NULL, !.late = FALSE]
           name == [ue_state[x] EXCEPT !["tail"] = loc[c].name["tail"]]
<1>1. pc[c] = "ue_link" /\ pc' = [pc EXCEPT ![c] = "rate_lookup"] /\ "rate_lookup" \in Steps
  BY DEF UeLink, Goto, Steps
<1>2. /\ loc[c] \in Locals /\ x \in UeElems /\ loc[c].src \in Sources /\ loc[c].name \in Text
      /\ loc[c].late \in BOOLEAN /\ ue_state \in [UeElems -> Text]
      /\ "head" \in Parts /\ "tail" \in Parts /\ Whole(NULL) \in Text
  BY <1>1, GetLocals DEF TypeOK, InFlight, Parts, Whole, Text
<1>3. loc' = [loc EXCEPT ![c] = l]
  BY <1>2 DEF UeLink, TypeOK
<1>4. l \in Locals /\ l.src = loc[c].src
  BY <1>2 DEF Locals
<1>5. /\ name \in Text /\ name["tail"] = loc[c].name["tail"]
      /\ name["head"] = ue_state[x]["head"]
  BY <1>2 DEF Text
<1>6. ue_state' = [ue_state EXCEPT ![x] = name]
  BY DEF UeLink
<1>7. /\ ue_elem' = [ue_elem EXCEPT ![loc[c].src] = x]
      /\ overtaken' = [overtaken EXCEPT ![loc[c].src] = loc[c].late]
      /\ ue_elem \in [Sources -> UeElems \cup {NULL}] /\ overtaken \in [Sources -> BOOLEAN]
  BY DEF UeLink, TypeOK
<1> HIDE DEF l, name, x
<1>8. OnlyCpu(c) /\ pc'[c] = "rate_lookup" /\ loc'[c] = l
  BY <1>1, <1>3, <1>4, OneCpu
<1>9. /\ ue_elem' \in [Sources -> UeElems \cup {NULL}]
      /\ \A s \in Sources : ue_elem'[s] = IF s = loc[c].src THEN x ELSE ue_elem[s]
      /\ overtaken' \in [Sources -> BOOLEAN] /\ overtaken'[loc[c].src] = loc[c].late
      /\ \A s \in Sources : s # loc[c].src => overtaken'[s] = overtaken[s]
  BY <1>2, <1>7
<1>10. /\ ue_state' \in [UeElems -> Text] /\ ue_state'[x] = name
       /\ \A y \in UeElems : y # x => ue_state'[y] = ue_state[y]
  BY <1>2, <1>5, <1>6
<1>11. QED
  BY <1>1, <1>2, <1>4, <1>5, <1>8, <1>9, <1>10 DEF x

\* The steps between the two lookups and rate_limited(), the atomic counter apart.
CheckState(c) ==
    \/ UeLookup(c) \/ FromHead(c) \/ FromTail(c) \/ EdgeLookup(c)
    \/ ToHead(c) \/ ToTail(c) \/ UeFill(c) \/ UeLink(c)

Checking == {"ue_lookup", "from_head", "from_tail", "edge_lookup", "to_head", "to_tail",
             "ue_fill", "ue_link"}

LEMMA CheckStateDoes ==
    ASSUME TypeOK, NEW c \in CPUs, CheckState(c)
    PROVE  /\ OnlyCpu(c) /\ pc[c] \in Checking
           /\ pc'[c] \in Checking \cup {"flag", "rate_lookup"}
           /\ loc'[c].src = loc[c].src
           /\ UNCHANGED << now, rate_vars, amf_xdp_stats, log_vars, fsm_vars >>
<1>1. UNCHANGED << now, rate_vars, amf_xdp_stats, log_vars, fsm_vars >>
  BY DEF CheckState, UeLookup, FromHead, FromTail, EdgeLookup, ToHead, ToTail, UeFill, UeLink
<1>2. /\ OnlyCpu(c) /\ pc[c] \in Checking /\ loc'[c].src = loc[c].src
      /\ pc'[c] \in Checking \cup {"flag", "rate_lookup"}
  BY UeLookupDoes, FromHeadDoes, FromTailDoes, EdgeLookupDoes, ToHeadDoes, ToTailDoes,
     UeFillDoes, UeLinkDoes DEF CheckState, Checking
<1>3. QED
  BY <1>1, <1>2

LEMMA FlagDoes ==
    ASSUME TypeOK, NEW c \in CPUs, Flag(c)
    PROVE  /\ OnlyCpu(c) /\ pc[c] = "flag" /\ pc'[c] = "rate_lookup"
           /\ loc'[c] = loc[c]
BY OneCpuPc DEF Flag, Goto, Steps

LEMMA RateLookupDoes ==
    ASSUME TypeOK, NEW c \in CPUs, RateLookup(c)
    PROVE  /\ OnlyCpu(c) /\ pc[c] = "rate_lookup"
           /\ loc'[c].src = loc[c].src /\ loc'[c].e = rate_elem[loc[c].src]
           /\ pc'[c] = IF rate_elem[loc[c].src] = NULL THEN "rate_init" ELSE "window_check"
<1> DEFINE e == rate_elem[loc[c].src]
           p == IF e = NULL THEN "rate_init" ELSE "window_check"
<1>1. pc[c] = "rate_lookup" /\ pc' = [pc EXCEPT ![c] = p] /\ p \in Steps
  BY DEF RateLookup, Goto, Steps, Holding
<1>2. loc[c] \in Locals /\ loc[c].src \in Sources /\ e \in RateElems \cup {NULL}
  BY <1>1 DEF TypeOK, InFlight
<1>3. [loc[c] EXCEPT !.e = e] \in Locals
  BY <1>2, SetLocals
<1>4. loc' = [loc EXCEPT ![c] = [loc[c] EXCEPT !.e = e]]
  BY DEF RateLookup
<1> HIDE DEF e
<1>5. OnlyCpu(c) /\ pc'[c] = p /\ loc'[c] = [loc[c] EXCEPT !.e = e]
  BY <1>1, <1>3, <1>4, OneCpu
<1>6. QED
  BY <1>1, <1>2, <1>5, KeptLocals DEF e

LEMMA RateInitDoes ==
    ASSUME TypeOK, NEW c \in CPUs, RateInit(c)
    PROVE  /\ OnlyCpu(c) /\ pc[c] = "rate_init" /\ pc'[c] = "pass"
           /\ loc'[c] = loc[c]
BY OneCpuPc DEF RateInit, Goto, Steps

LEMMA WindowCheckDoes ==
    ASSUME TypeOK, NEW c \in CPUs, WindowCheck(c)
    PROVE  /\ OnlyCpu(c) /\ pc[c] = "window_check" /\ pc'[c] \in {"reset_start", "count_load"}
           /\ loc'[c] = loc[c]
<1> DEFINE p == IF Sub64(loc[c].t, rate_entry[loc[c].e].window_start_ns) > RATE_WINDOW_NS
                  THEN "reset_start" ELSE "count_load"
<1>1. p \in {"reset_start", "count_load"} /\ p \in Steps
  BY DEF Steps, Holding
<1>2. pc[c] = "window_check" /\ pc' = [pc EXCEPT ![c] = p] /\ UNCHANGED loc
  BY DEF WindowCheck, Goto
<1> HIDE DEF p
<1>3. QED
  BY <1>1, <1>2, OneCpuPc

LEMMA ResetStartDoes ==
    ASSUME TypeOK, NEW c \in CPUs, ResetStart(c)
    PROVE  /\ OnlyCpu(c) /\ pc[c] = "reset_start" /\ pc'[c] = "reset_count"
           /\ loc'[c] = loc[c]
BY OneCpuPc DEF ResetStart, Goto, Steps, Holding

LEMMA ResetCountDoes ==
    ASSUME TypeOK, NEW c \in CPUs, ResetCount(c)
    PROVE  /\ OnlyCpu(c) /\ pc[c] = "reset_count" /\ pc'[c] = "pass"
           /\ loc'[c] = loc[c]
BY OneCpuPc DEF ResetCount, Goto, Steps

LEMMA CountLoadDoes ==
    ASSUME TypeOK, NEW c \in CPUs, CountLoad(c)
    PROVE  /\ OnlyCpu(c) /\ pc[c] = "count_load" /\ pc'[c] = "count_store"
           /\ loc'[c].src = loc[c].src /\ loc'[c].e = loc[c].e
           /\ loc'[c].n = rate_entry[loc[c].e].count + 1
<1> DEFINE n == rate_entry[loc[c].e].count + 1
<1>1. pc[c] = "count_load" /\ pc' = [pc EXCEPT ![c] = "count_store"] /\ "count_store" \in Steps
  BY DEF CountLoad, Goto, Steps, Holding
<1>2. loc[c] \in Locals
  BY DEF TypeOK
<1>3. loc[c].e \in RateElems
  BY <1>1, <1>2, GetLocals DEF TypeOK, Holding
<1>4. n \in Nat
  BY <1>3 DEF TypeOK
<1>5. loc' = [loc EXCEPT ![c] = [loc[c] EXCEPT !.n = n]]
  BY DEF CountLoad
<1>6. [loc[c] EXCEPT !.n = n] \in Locals
  BY <1>2, <1>4, SetLocals
<1> HIDE DEF n
<1>7. OnlyCpu(c) /\ pc'[c] = "count_store" /\ loc'[c] = [loc[c] EXCEPT !.n = n]
  BY <1>1, <1>5, <1>6, OneCpu
<1>8. QED
  BY <1>1, <1>2, <1>7, KeptLocals DEF n

LEMMA CountStoreDoes ==
    ASSUME TypeOK, NEW c \in CPUs, CountStore(c)
    PROVE  /\ OnlyCpu(c) /\ pc[c] = "count_store"
           /\ pc'[c] = IF loc[c].n > RATE_MAX_PER_WIN THEN "drop" ELSE "pass"
           /\ loc'[c] = loc[c]
<1> DEFINE p == IF loc[c].n > RATE_MAX_PER_WIN THEN "drop" ELSE "pass"
<1>1. pc[c] = "count_store" /\ pc' = [pc EXCEPT ![c] = p] /\ p \in Steps /\ UNCHANGED loc
  BY DEF CountStore, Goto, Steps
<1> HIDE DEF p
<1>2. OnlyCpu(c) /\ pc'[c] = p /\ loc'[c] = loc[c]
  BY <1>1, OneCpuPc
<1>3. QED
  BY <1>1, <1>2 DEF p

LEMMA VerdictDoes ==
    ASSUME TypeOK, NEW c \in CPUs, Pass(c) \/ Drop(c)
    PROVE  /\ OnlyCpu(c) /\ pc[c] \in {"pass", "drop"} /\ pc'[c] = "idle"
           /\ Pass(c) => pc[c] = "pass"
           /\ Drop(c) => pc[c] = "drop"
<1>1. Idle \in Locals /\ "idle" \in Steps
  BY BoundsNat DEF Idle, Locals, Steps, Whole, Text
<1>2. loc' = [loc EXCEPT ![c] = Idle] /\ pc' = [pc EXCEPT ![c] = "idle"]
  BY DEF Pass, Drop, Goto
<1>3. OnlyCpu(c) /\ pc'[c] = "idle"
  BY <1>1, <1>2, OneCpu
<1>4. QED
  BY <1>3 DEF Pass, Drop, Goto

(***************************************************************************)
(* TypeOK, a group of conjuncts at a time.                                 *)
(***************************************************************************)
FsmTypes ==
    /\ edge_elem \in [Edges -> EdgeElems \cup {NULL}]
    /\ edge_to \in [EdgeElems -> Text]
    /\ spare \in EdgeElems
    /\ populate \in [run : Nat, next : Edges, new : EdgeElems \cup {NULL}]

UeTypes ==
    /\ ue_elem \in [Sources -> UeElems \cup {NULL}]
    /\ ue_state \in [UeElems -> Text]
    /\ overtaken \in [Sources -> BOOLEAN]

RateEntries == [window_start_ns : 0..MaxTime, count : Nat]

RateTypes ==
    /\ rate_elem \in [Sources -> RateElems \cup {NULL}]
    /\ rate_entry \in [RateElems -> RateEntries]
    /\ reused \in BOOLEAN

LogTypes ==
    /\ now \in 0..MaxTime
    /\ amf_xdp_stats \in [Stats -> Nat]
    /\ rx \in Nat /\ aged \in Nat
    /\ arrived \in [Sources -> Seq(Nat)]
    /\ drops \in [Sources -> Nat]

CpuTypes ==
    /\ pc \in [CPUs -> Steps]
    /\ loc \in [CPUs -> Locals]
    /\ \A c \in InFlight : loc[c].src \in Sources
    /\ \A c \in CPUs : pc[c] \in {"from_head", "from_tail"} => loc[c].ue # NULL
    /\ \A c \in CPUs : pc[c] \in {"to_head", "to_tail"} => loc[c].edge # NULL
    /\ \A c \in CPUs : pc[c] = "ue_link" => loc[c].new # NULL
    /\ \A c \in CPUs : pc[c] \in Holding => loc[c].e # NULL

LEMMA TypeGroups == TypeOK <=> FsmTypes /\ UeTypes /\ RateTypes /\ LogTypes /\ CpuTypes
BY Zenon DEF TypeOK, FsmTypes, UeTypes, RateTypes, RateEntries, LogTypes, CpuTypes

\* What a step of the program finds in its locals.
LEMMA AtWork ==
    ASSUME TypeOK, NEW c \in CPUs, pc[c] # "idle"
    PROVE  /\ loc[c] \in Locals /\ loc[c].src \in Sources /\ loc[c].t \in 0..MaxTime /\ loc[c].n \in Nat
           /\ pc[c] \in Holding => loc[c].e \in RateElems
BY GetLocals DEF TypeOK, InFlight

LEMMA CpuTypesStep ==
    ASSUME TypeOK, NEW c \in CPUs, Program(c)
    PROVE  CpuTypes'
<1>1. CpuTypes
  BY TypeGroups
<1>2. SUFFICES /\ OnlyCpu(c)
               /\ pc'[c] # "idle" => loc'[c].src \in Sources
               /\ pc'[c] \in {"from_head", "from_tail"} => loc'[c].ue # NULL
               /\ pc'[c] \in {"to_head", "to_tail"} => loc'[c].edge # NULL
               /\ pc'[c] = "ue_link" => loc'[c].new # NULL
               /\ pc'[c] \in Holding => loc'[c].e # NULL
  BY <1>1 DEF CpuTypes, OnlyCpu, InFlight
<1> USE DEF Holding
<1>3. CASE \E src \in Sources : Receive(c, src)
  BY <1>3, ReceiveDoes
<1>4. CASE UeLookup(c) \/ FromHead(c) \/ FromTail(c)
  BY <1>4, UeLookupDoes, FromHeadDoes, FromTailDoes, AtWork
<1>5. CASE EdgeLookup(c)
  BY <1>5, EdgeLookupDoes, AtWork
<1>6. CASE ToHead(c) \/ ToTail(c)
  BY <1>6, ToHeadDoes, ToTailDoes, AtWork, BoundsNat DEF EdgeElems
<1>15. CASE UeFill(c)
  BY <1>15, UeFillDoes, AtWork, BoundsNat
<1>16. CASE UeLink(c) \/ Flag(c)
  BY <1>16, UeLinkDoes, FlagDoes, AtWork
<1>7. CASE RateLookup(c)
  BY <1>7, RateLookupDoes, AtWork
<1>8. CASE RateInit(c) \/ ResetCount(c)
  BY <1>8, RateInitDoes, ResetCountDoes, AtWork
<1>9. CASE WindowCheck(c)
  BY <1>9, WindowCheckDoes, AtWork, BoundsNat
<1>10. CASE ResetStart(c)
  BY <1>10, ResetStartDoes, AtWork, BoundsNat
<1>11. CASE CountLoad(c)
  BY <1>11, CountLoadDoes, AtWork, BoundsNat
<1>12. CASE CountStore(c)
  BY <1>12, CountStoreDoes, AtWork
<1>13. CASE Pass(c) \/ Drop(c)
  BY <1>13, VerdictDoes
<1>14. QED
  BY <1>3, <1>4, <1>5, <1>6, <1>7, <1>8, <1>9, <1>10, <1>11, <1>12, <1>13, <1>15, <1>16 DEF Program

LEMMA SetEntry ==
    ASSUME NEW r \in RateEntries
    PROVE  /\ r.window_start_ns \in 0..MaxTime /\ r.count \in Nat
           /\ \A t \in 0..MaxTime : /\ [r EXCEPT !.window_start_ns = t] \in RateEntries
                                    /\ [r EXCEPT !.window_start_ns = t].count = r.count
           /\ \A n \in Nat : /\ [r EXCEPT !.count = n] \in RateEntries
                             /\ [r EXCEPT !.count = n].count = n
BY DEF RateEntries

\* What the steps that write to a rate entry do to the counters.
LEMMA ResetStartWrites ==
    ASSUME TypeOK, NEW c \in CPUs, ResetStart(c)
    PROVE  /\ rate_entry' \in [RateElems -> RateEntries]
           /\ \A x \in RateElems : rate_entry'[x].count = rate_entry[x].count
<1> DEFINE e == loc[c].e
           r == [rate_entry[e] EXCEPT !.window_start_ns = loc[c].t]
<1>1. e \in RateElems /\ loc[c].t \in 0..MaxTime
  BY ResetStartDoes, AtWork DEF Holding
<1>2. rate_entry \in [RateElems -> RateEntries]
  BY TypeGroups DEF RateTypes
<1>3. rate_entry' = [rate_entry EXCEPT ![e] = r]
  BY DEF ResetStart
<1>4. r \in RateEntries /\ r.count = rate_entry[e].count
  BY <1>1, <1>2, SetEntry
<1> HIDE DEF e, r
<1>5. QED
  BY <1>1, <1>2, <1>3, <1>4

LEMMA ResetCountWrites ==
    ASSUME TypeOK, NEW c \in CPUs, ResetCount(c)
    PROVE  /\ rate_entry' \in [RateElems -> RateEntries]
           /\ \A x \in RateElems :
                rate_entry'[x].count = IF x = loc[c].e THEN 1 ELSE rate_entry[x].count
<1> DEFINE e == loc[c].e
           r == [rate_entry[e] EXCEPT !.count = 1]
<1>1. e \in RateElems
  BY ResetCountDoes, AtWork DEF Holding
<1>2. rate_entry \in [RateElems -> RateEntries]
  BY TypeGroups DEF RateTypes
<1>3. rate_entry' = [rate_entry EXCEPT ![e] = r]
  BY DEF ResetCount
<1>4. r \in RateEntries /\ r.count = 1
  BY <1>1, <1>2, SetEntry
<1> HIDE DEF r
<1>5. QED
  BY <1>1, <1>2, <1>3, <1>4

LEMMA CountStoreWrites ==
    ASSUME TypeOK, NEW c \in CPUs, CountStore(c)
    PROVE  /\ rate_entry' \in [RateElems -> RateEntries]
           /\ \A x \in RateElems :
                rate_entry'[x].count = IF x = loc[c].e THEN loc[c].n ELSE rate_entry[x].count
<1> DEFINE e == loc[c].e
           r == [rate_entry[e] EXCEPT !.count = loc[c].n]
<1>1. e \in RateElems /\ loc[c].n \in Nat
  BY CountStoreDoes, AtWork DEF Holding
<1>2. rate_entry \in [RateElems -> RateEntries]
  BY TypeGroups DEF RateTypes
<1>3. rate_entry' = [rate_entry EXCEPT ![e] = r]
  BY DEF CountStore
<1>4. r \in RateEntries /\ r.count = loc[c].n
  BY <1>1, <1>2, SetEntry
<1> HIDE DEF r
<1>5. QED
  BY <1>1, <1>2, <1>3, <1>4

LEMMA RateInitWrites ==
    ASSUME TypeOK, NEW c \in CPUs, RateInit(c)
    PROVE  \E e \in RateElems :
             /\ \A s \in Sources : rate_elem[s] # e
             /\ rate_elem' \in [Sources -> RateElems \cup {NULL}]
             /\ rate_elem'[loc[c].src] = e
             /\ \A s \in Sources : s # loc[c].src => rate_elem'[s] = rate_elem[s]
             /\ rate_entry' \in [RateElems -> RateEntries]
             /\ \A x \in RateElems :
                  rate_entry'[x].count = IF x = e THEN 1 ELSE rate_entry[x].count
             /\ reused' \in BOOLEAN
             /\ ~reused' => ~reused /\ rate_entry[e].count = 0
<1> DEFINE r == RateEntry(loc[c].t, 1)
<1>1. loc[c].t \in 0..MaxTime /\ loc[c].src \in Sources
  BY RateInitDoes, AtWork
<1>2. /\ rate_entry \in [RateElems -> RateEntries]
      /\ rate_elem \in [Sources -> RateElems \cup {NULL}]
  BY TypeGroups DEF RateTypes
<1>3. PICK e \in RateElems :
        /\ \A s \in Sources : rate_elem[s] # e
        /\ rate_elem' = [rate_elem EXCEPT ![loc[c].src] = e]
        /\ rate_entry' = [rate_entry EXCEPT ![e] = r]
        /\ reused' = (reused \/ rate_entry[e].count # 0)
  BY Zenon DEF RateInit
<1>4. r \in RateEntries /\ r.count = 1
  BY <1>1 DEF RateEntry, RateEntries
<1>5. reused' \in BOOLEAN /\ (~reused' => ~reused /\ rate_entry[e].count = 0)
  BY <1>3, Zenon
<1> HIDE DEF r
<1>6. /\ rate_elem' \in [Sources -> RateElems \cup {NULL}] /\ rate_elem'[loc[c].src] = e
      /\ \A s \in Sources : s # loc[c].src => rate_elem'[s] = rate_elem[s]
  BY <1>1, <1>2, <1>3
<1>7. /\ rate_entry' \in [RateElems -> RateEntries]
      /\ \A x \in RateElems : rate_entry'[x].count = IF x = e THEN 1 ELSE rate_entry[x].count
  BY <1>2, <1>3, <1>4
<1>8. QED
  BY <1>3, <1>5, <1>6, <1>7

(***************************************************************************)
(* What the loader does.                                                   *)
(***************************************************************************)
\* The locals that a refilled element leaves alone.
SameLocals(d) ==
    /\ loc'[d].src = loc[d].src /\ loc'[d].ue = loc[d].ue /\ loc'[d].name = loc[d].name
    /\ loc'[d].edge = loc[d].edge /\ loc'[d].new = loc[d].new
    /\ loc'[d].e = loc[d].e /\ loc'[d].n = loc[d].n

LEMMA FreeElemType ==
    ASSUME TypeOK
    PROVE  /\ populate.next \in Edges /\ populate.run \in Nat /\ FreeElem \in EdgeElems
           /\ EdgeVal(populate.next) \in FsmStates
<1>1. populate.next \in Edges /\ populate.run \in Nat /\ spare \in EdgeElems
  BY DEF TypeOK
<1>2. Edges \subseteq EdgeElems
  BY BoundsNat DEF Edges, EdgeElems
<1>3. QED
  BY <1>1, <1>2 DEF FreeElem, FsmStates

LEMMA PopulateHeadDoes ==
    ASSUME TypeOK, PopulateHead
    PROVE  /\ populate' \in [run : Nat, next : Edges, new : EdgeElems \cup {NULL}]
           /\ populate.new = NULL
           /\ populate'.run = populate.run /\ populate'.next = populate.next
           /\ populate'.new = FreeElem /\ FreeElem \in EdgeElems
           /\ edge_to' \in [EdgeElems -> Text]
           /\ edge_to'[FreeElem]["head"] = EdgeVal(populate.next)
           /\ edge_to'[FreeElem]["tail"] = edge_to[FreeElem]["tail"]
           /\ \A y \in EdgeElems : y # FreeElem => edge_to'[y] = edge_to[y]
           /\ CpuTypes' /\ UNCHANGED pc /\ \A d \in CPUs : SameLocals(d)
           /\ \A d \in CPUs : /\ loc'[d].late \in BOOLEAN /\ (loc[d].late => loc'[d].late)
                              /\ pc[d] \in Copying /\ loc[d].edge = FreeElem => loc'[d].late
                              /\ pc[d] \notin Copying => loc'[d].late = loc[d].late
<1> DEFINE text == [edge_to[FreeElem] EXCEPT !["head"] = EdgeVal(populate.next)]
<1>1. /\ edge_to \in [EdgeElems -> Text] /\ FreeElem \in EdgeElems
      /\ EdgeVal(populate.next) \in FsmStates /\ "head" \in Parts /\ "tail" \in Parts
      /\ populate \in [run : Nat, next : Edges, new : EdgeElems \cup {NULL}]
  BY FreeElemType DEF TypeOK, Parts
<1>2. /\ text \in Text /\ text["head"] = EdgeVal(populate.next)
      /\ text["tail"] = edge_to[FreeElem]["tail"]
  BY <1>1 DEF Text
<1>3. edge_to' = [edge_to EXCEPT ![FreeElem] = text] /\ UNCHANGED pc
  BY DEF PopulateHead
<1>4. populate' = [populate EXCEPT !.new = FreeElem] /\ populate.new = NULL
  BY DEF PopulateHead
<1> HIDE DEF text
<1>5. /\ edge_to' \in [EdgeElems -> Text] /\ edge_to'[FreeElem] = text
      /\ \A y \in EdgeElems : y # FreeElem => edge_to'[y] = edge_to[y]
  BY <1>1, <1>2, <1>3
<1>6. /\ populate' \in [run : Nat, next : Edges, new : EdgeElems \cup {NULL}]
      /\ populate'.run = populate.run /\ populate'.next = populate.next /\ populate'.new = FreeElem
  BY <1>1, <1>4
<1>7. ASSUME NEW d \in CPUs
      PROVE  /\ loc'[d] \in Locals /\ SameLocals(d) /\ (loc[d].late => loc'[d].late)
             /\ loc'[d].late \in BOOLEAN
             /\ pc[d] \in Copying /\ loc[d].edge = FreeElem => loc'[d].late
             /\ pc[d] \notin Copying => loc'[d].late = loc[d].late
  <2> DEFINE late == loc[d].late \/ (pc[d] \in {"to_head", "to_tail"} /\ loc[d].edge = FreeElem)
  <2>1. loc[d] \in Locals /\ loc[d].late \in BOOLEAN
    BY GetLocals DEF TypeOK
  <2>2. loc'[d] = [loc[d] EXCEPT !.late = late]
    BY DEF PopulateHead, Overtake
  <2>3. late \in BOOLEAN
    BY <2>1
  <2>4. /\ loc[d].late => late
        /\ pc[d] \in Copying /\ loc[d].edge = FreeElem => late
        /\ pc[d] \notin Copying => late = loc[d].late
    BY <2>1 DEF Copying
  <2> HIDE DEF late
  <2>5. /\ loc'[d] \in Locals /\ loc'[d].late = late /\ loc'[d].src = loc[d].src
        /\ loc'[d].ue = loc[d].ue /\ loc'[d].name = loc[d].name
        /\ loc'[d].edge = loc[d].edge /\ loc'[d].new = loc[d].new
        /\ loc'[d].e = loc[d].e /\ loc'[d].n = loc[d].n
    BY <2>1, <2>2, <2>3 DEF Locals
  <2>6. QED
    BY <2>3, <2>4, <2>5 DEF SameLocals
<1>8. DOMAIN loc' = CPUs /\ loc' = [d \in CPUs |-> loc'[d]]
  BY DEF PopulateHead, Overtake
<1>9. loc' \in [CPUs -> Locals]
  BY <1>7, <1>8
<1>10. CpuTypes
  BY TypeGroups
<1>11. CpuTypes'
  BY <1>3, <1>7, <1>9, <1>10 DEF CpuTypes, InFlight, SameLocals
<1>12. QED
  BY <1>1, <1>2, <1>3, <1>4, <1>5, <1>6, <1>7, <1>11

LEMMA PopulateTailDoes ==
    ASSUME TypeOK, PopulateTail
    PROVE  /\ populate' \in [run : Nat, next : Edges, new : EdgeElems \cup {NULL}]
           /\ populate.new # NULL /\ populate.new \in EdgeElems /\ populate'.new = NULL
           /\ \/ /\ populate.next < EdgesModelled
                 /\ populate'.run = populate.run /\ populate'.next = populate.next + 1
              \/ /\ populate.next = EdgesModelled
                 /\ populate'.run = populate.run + 1 /\ populate'.next = 1
           /\ edge_to' \in [EdgeElems -> Text]
           /\ edge_to'[populate.new]["head"] = edge_to[populate.new]["head"]
           /\ edge_to'[populate.new]["tail"] = EdgeVal(populate.next)
           /\ \A y \in EdgeElems : y # populate.new => edge_to'[y] = edge_to[y]
           /\ edge_elem' \in [Edges -> EdgeElems \cup {NULL}]
           /\ edge_elem'[populate.next] = populate.new
           /\ \A i \in Edges : i # populate.next => edge_elem'[i] = edge_elem[i]
           /\ spare' \in EdgeElems
           /\ spare' = IF edge_elem[populate.next] = NULL THEN spare ELSE edge_elem[populate.next]
<1> DEFINE i == populate.next
           new == populate.new
           text == [edge_to[new] EXCEPT !["tail"] = EdgeVal(i)]
<1>1. /\ edge_to \in [EdgeElems -> Text] /\ i \in Edges /\ populate.run \in Nat
      /\ EdgeVal(i) \in FsmStates /\ "head" \in Parts /\ "tail" \in Parts
      /\ populate \in [run : Nat, next : Edges, new : EdgeElems \cup {NULL}]
      /\ edge_elem \in [Edges -> EdgeElems \cup {NULL}] /\ spare \in EdgeElems
  BY FreeElemType DEF TypeOK, Parts
<1>2. new # NULL /\ new \in EdgeElems
  BY <1>1 DEF PopulateTail
<1>3. text \in Text /\ text["tail"] = EdgeVal(i) /\ text["head"] = edge_to[new]["head"]
  BY <1>1, <1>2 DEF Text
<1>4. /\ edge_to' = [edge_to EXCEPT ![new] = text]
      /\ edge_elem' = [edge_elem EXCEPT ![i] = new]
      /\ spare' = IF edge_elem[i] = NULL THEN spare ELSE edge_elem[i]
      /\ populate' = IF i < EdgesModelled THEN [populate EXCEPT !.next = i + 1, !.new = NULL]
                                          ELSE [run |-> populate.run + 1, next |-> 1, new |-> NULL]
  BY DEF PopulateTail
<1> HIDE DEF text
<1>5. /\ edge_to' \in [EdgeElems -> Text] /\ edge_to'[new] = text
      /\ \A y \in EdgeElems : y # new => edge_to'[y] = edge_to[y]
  BY <1>1, <1>2, <1>3, <1>4
<1>6. /\ edge_elem' \in [Edges -> EdgeElems \cup {NULL}] /\ edge_elem'[i] = new
      /\ \A j \in Edges : j # i => edge_elem'[j] = edge_elem[j]
      /\ spare' \in EdgeElems
  BY <1>1, <1>2, <1>4
<1>7. 1 \in Edges /\ (i < EdgesModelled => i + 1 \in Edges) /\ (~(i < EdgesModelled) => i = EdgesModelled)
  BY <1>1, BoundsNat DEF Edges
<1>8. /\ populate' \in [run : Nat, next : Edges, new : EdgeElems \cup {NULL}] /\ populate'.new = NULL
      /\ \/ i < EdgesModelled /\ populate'.run = populate.run /\ populate'.next = i + 1
         \/ i = EdgesModelled /\ populate'.run = populate.run + 1 /\ populate'.next = 1
  <2>1. CASE i < EdgesModelled
    BY <1>1, <1>4, <1>7, <2>1
  <2>2. CASE ~(i < EdgesModelled)
    BY <1>1, <1>4, <1>7, <2>2
  <2>3. QED
    BY <2>1, <2>2
<1>9. QED
  BY <1>2, <1>3, <1>4, <1>5, <1>6, <1>8

LEMMA TypeStep == TypeOK /\ [Next]_vars => TypeOK'
<1> SUFFICES ASSUME TypeOK, [Next]_vars
             PROVE  TypeOK'
  OBVIOUS
<1>1. FsmTypes /\ UeTypes /\ RateTypes /\ LogTypes /\ CpuTypes
  BY TypeGroups
<1>2. SUFFICES FsmTypes' /\ UeTypes' /\ RateTypes' /\ LogTypes' /\ CpuTypes'
  BY Zenon DEF TypeOK, FsmTypes, UeTypes, RateTypes, RateEntries, LogTypes, CpuTypes
<1>3. ASSUME UNCHANGED fsm_vars PROVE FsmTypes'
  BY <1>1, <1>3 DEF fsm_vars, FsmTypes
<1>13. ASSUME UNCHANGED ue_vars PROVE UeTypes'
  BY <1>1, <1>13 DEF ue_vars, UeTypes
<1>4. ASSUME UNCHANGED rate_vars PROVE RateTypes'
  BY <1>1, <1>4, Zenon DEF rate_vars, RateTypes
<1>5. ASSUME UNCHANGED << now, amf_xdp_stats, log_vars >> PROVE LogTypes'
  BY <1>1, <1>5 DEF log_vars, LogTypes
<1>6. ASSUME UNCHANGED << pc, loc >> PROVE CpuTypes'
  BY <1>1, <1>6 DEF CpuTypes, InFlight
<1>7. CASE \E c \in CPUs : Program(c)
  <2>1. PICK c \in CPUs : Program(c)
    BY <1>7
  <2>2. CpuTypes'
    BY <2>1, CpuTypesStep
  <2>3. CASE \E src \in Sources : Receive(c, src)
    <3>1. PICK src \in Sources : Receive(c, src)
      BY <2>3
    <3>2. LogTypes'
      BY <1>1, <3>1, BoundsNat DEF Receive, LogTypes
    <3>3. QED
      BY <2>2, <3>1, <3>2, <1>3, <1>4, <1>13 DEF Receive
  <2>4. CASE RateLookup(c) \/ WindowCheck(c) \/ CountLoad(c)
    BY <2>2, <2>4, <1>3, <1>4, <1>5, <1>13 DEF RateLookup, WindowCheck, CountLoad
  <2>5. CASE CheckState(c)
    <3>1. FsmTypes' /\ RateTypes' /\ LogTypes'
      BY <2>5, CheckStateDoes, <1>3, <1>4, <1>5
    <3>2. CASE UeFill(c)
      <4>1. ue_state' \in [UeElems -> Text] /\ UNCHANGED << ue_elem, overtaken >>
        BY <3>2, UeFillDoes DEF UeFill
      <4>2. QED
        BY <1>1, <2>2, <3>1, <4>1 DEF UeTypes
    <3>3. CASE UeLink(c)
      BY <2>2, <3>1, <3>3, UeLinkDoes DEF UeTypes
    <3>4. CASE ~UeFill(c) /\ ~UeLink(c)
      <4>1. UNCHANGED ue_vars
        BY <2>5, <3>4 DEF CheckState, UeLookup, FromHead, FromTail, EdgeLookup, ToHead, ToTail
      <4>2. QED
        BY <2>2, <3>1, <4>1, <1>13
    <3>5. QED
      BY <3>2, <3>3, <3>4
  <2>6. CASE Flag(c)
    <3>1. LogTypes'
      BY <1>1, <2>6 DEF Flag, LogTypes, log_vars, Stats
    <3>2. QED
      BY <2>2, <2>6, <3>1, <1>3, <1>4, <1>13 DEF Flag
  <2>7. CASE RateInit(c)
    <3>1. RateTypes'
      BY <1>1, <2>7, RateInitWrites DEF RateInit, RateTypes
    <3>2. QED
      BY <2>2, <2>7, <3>1, <1>3, <1>5, <1>13 DEF RateInit
  <2>8. CASE ResetStart(c) \/ ResetCount(c) \/ CountStore(c)
    <3>1. rate_entry' \in [RateElems -> RateEntries]
      BY <2>8, ResetStartWrites, ResetCountWrites, CountStoreWrites
    <3>2. UNCHANGED << rate_elem, reused >>
      BY <2>8 DEF ResetStart, ResetCount, CountStore
    <3>3. RateTypes'
      BY <1>1, <3>1, <3>2, Zenon DEF RateTypes
    <3>4. QED
      BY <2>2, <2>8, <3>3, <1>3, <1>5, <1>13 DEF ResetStart, ResetCount, CountStore
  <2>9. CASE Pass(c)
    <3>1. LogTypes'
      BY <1>1, <2>9 DEF Pass, LogTypes, log_vars, Stats
    <3>2. QED
      BY <2>2, <2>9, <3>1, <1>3, <1>4, <1>13 DEF Pass
  <2>10. CASE Drop(c)
    <3>1. loc[c].src \in Sources
      BY <2>10, VerdictDoes, AtWork
    <3>2. LogTypes'
      BY <1>1, <2>10, <3>1 DEF Drop, LogTypes, log_vars, Stats
    <3>3. QED
      BY <2>2, <2>10, <3>2, <1>3, <1>4, <1>13 DEF Drop
  <2>11. QED
    BY <2>1, <2>3, <2>4, <2>5, <2>6, <2>7, <2>8, <2>9, <2>10 DEF Program, CheckState
<1>8. CASE Tick
  <2>1. LogTypes'
    BY <1>1, <1>8, BoundsNat DEF Tick, LogTypes, log_vars
  <2>2. QED
    BY <1>8, <2>1, <1>3, <1>4, <1>6, <1>13 DEF Tick
<1>9. CASE PopulateHead
  <2>3. UNCHANGED << edge_elem, spare >>
    BY <1>9 DEF PopulateHead
  <2>1. FsmTypes' /\ CpuTypes'
    BY <1>1, <1>9, <2>3, PopulateHeadDoes DEF FsmTypes
  <2>2. QED
    BY <1>9, <2>1, <1>4, <1>5, <1>13 DEF PopulateHead
<1>14. CASE PopulateTail
  <2>1. FsmTypes'
    BY <1>1, <1>14, PopulateTailDoes DEF FsmTypes
  <2>2. QED
    BY <1>14, <2>1, <1>4, <1>5, <1>6, <1>13 DEF PopulateTail
<1>10. CASE \E src \in Sources : Age(src)
  <2>1. PICK src \in Sources : Age(src)
    BY <1>10
  <2>2. rate_elem' \in [Sources -> RateElems \cup {NULL}] /\ UNCHANGED << rate_entry, reused >>
    BY <1>1, <2>1 DEF Age, RateTypes
  <2>3. RateTypes'
    BY <1>1, <2>2, Zenon DEF RateTypes
  <2>4. LogTypes'
    BY <1>1, <2>1 DEF Age, LogTypes
  <2>5. QED
    BY <2>1, <2>3, <2>4, <1>3, <1>6, <1>13 DEF Age
<1>15. CASE \E src \in Sources : AgeUe(src)
  <2>1. PICK src \in Sources : AgeUe(src)
    BY <1>15
  <2>2. UeTypes'
    BY <1>1, <2>1 DEF AgeUe, UeTypes
  <2>3. LogTypes'
    BY <1>1, <2>1 DEF AgeUe, LogTypes
  <2>4. QED
    BY <2>1, <2>2, <2>3, <1>3, <1>4, <1>6 DEF AgeUe
<1>11. CASE UNCHANGED vars
  BY <1>11, <1>3, <1>4, <1>5, <1>6, <1>13 DEF vars
<1>12. QED
  BY <1>7, <1>8, <1>9, <1>10, <1>11, <1>14, <1>15 DEF Next

-----------------------------------------------------------------------------
(***************************************************************************)
(* EveryPacketCounted.                                                     *)
(***************************************************************************)
LEMMA CpusFinite ==
    ASSUME NEW S, S \subseteq CPUs
    PROVE  IsFiniteSet(S) /\ Cardinality(S) \in Nat
BY BoundsNat, FS_Subset, FS_CardinalityType

LEMMA OneMore ==
    ASSUME NEW S, S \subseteq CPUs, NEW c \in CPUs
    PROVE  /\ c \notin S => Cardinality(S \cup {c}) = Cardinality(S) + 1
           /\ c \in S => Cardinality(S \ {c}) = Cardinality(S) - 1
BY CpusFinite, FS_AddElement, FS_RemoveElement

\* A step of the program takes its CPU out of the idle ones or back, or neither.
LEMMA InFlightStep ==
    ASSUME TypeOK, NEW c \in CPUs, OnlyCpu(c)
    PROVE  /\ pc[c] = "idle" /\ pc'[c] # "idle" => Cardinality(InFlight') = Cardinality(InFlight) + 1
           /\ pc[c] # "idle" /\ pc'[c] = "idle" => Cardinality(InFlight') = Cardinality(InFlight) - 1
           /\ pc[c] # "idle" /\ pc'[c] # "idle" => InFlight' = InFlight
<1>1. InFlight \subseteq CPUs
  BY DEF InFlight
<1>2. ASSUME pc[c] = "idle", pc'[c] # "idle"
      PROVE  InFlight' = InFlight \cup {c} /\ c \notin InFlight
  BY <1>2 DEF InFlight, OnlyCpu
<1>3. ASSUME pc[c] # "idle", pc'[c] = "idle"
      PROVE  InFlight' = InFlight \ {c} /\ c \in InFlight
  BY <1>3 DEF InFlight, OnlyCpu
<1>4. ASSUME pc[c] # "idle", pc'[c] # "idle"
      PROVE  InFlight' = InFlight
  BY <1>4 DEF InFlight, OnlyCpu
<1>5. QED
  BY <1>1, <1>2, <1>3, <1>4, OneMore

LEMMA CountedStep ==
    ASSUME TypeOK, EveryPacketCounted, [Next]_vars
    PROVE  EveryPacketCounted'
<1> DEFINE Counts == /\ amf_xdp_stats \in [Stats -> Nat] /\ rx \in Nat
                     /\ Cardinality(InFlight) \in Nat /\ {"pass", "drop", "state_invalid"} = Stats
<1>1. Counts
  BY CpusFinite, Zenon DEF TypeOK, InFlight, Stats
<1>2. ASSUME UNCHANGED << rx, amf_xdp_stats, InFlight >>
      PROVE  EveryPacketCounted'
  BY <1>2 DEF EveryPacketCounted
<1>3. CASE \E c \in CPUs : Program(c)
  <2>1. PICK c \in CPUs : Program(c)
    BY <1>3
  <2>2. CASE \E src \in Sources : Receive(c, src)
    <3>1. rx' = rx + 1 /\ UNCHANGED amf_xdp_stats
      BY <2>2 DEF Receive
    <3>2. Cardinality(InFlight') = Cardinality(InFlight) + 1
      BY <2>2, ReceiveDoes, InFlightStep
    <3>3. QED
      BY <1>1, <3>1, <3>2 DEF EveryPacketCounted
  <2>3. CASE Pass(c) \/ Drop(c)
    <3>1. Cardinality(InFlight') = Cardinality(InFlight) - 1
      BY <2>3, VerdictDoes, InFlightStep
    <3>2. /\ rx' = rx
          /\ amf_xdp_stats'["pass"] + amf_xdp_stats'["drop"]
               = amf_xdp_stats["pass"] + amf_xdp_stats["drop"] + 1
      BY <1>1, <2>3 DEF Pass, Drop
    <3>3. amf_xdp_stats'["pass"] + amf_xdp_stats'["drop"] \in Nat
      BY <1>1, <3>2
    <3>4. QED
      BY <1>1, <3>1, <3>2, <3>3 DEF EveryPacketCounted
  <2>4. CASE Flag(c)
    <3>1. InFlight' = InFlight
      BY <2>4, FlagDoes, InFlightStep
    <3>2. /\ rx' = rx
          /\ amf_xdp_stats'["pass"] = amf_xdp_stats["pass"]
          /\ amf_xdp_stats'["drop"] = amf_xdp_stats["drop"]
      BY <1>1, <2>4 DEF Flag, log_vars
    <3>3. QED
      BY <3>1, <3>2 DEF EveryPacketCounted
  <2>5. CASE CheckState(c)
    BY <2>5, <1>2, CheckStateDoes, InFlightStep DEF Checking, log_vars
  <2>7. CASE RateLookup(c) \/ RateInit(c)
             \/ WindowCheck(c) \/ ResetStart(c) \/ ResetCount(c) \/ CountLoad(c) \/ CountStore(c)
    <3>1. OnlyCpu(c) /\ pc[c] # "idle" /\ pc'[c] # "idle"
      BY <2>7, RateLookupDoes, RateInitDoes,
         WindowCheckDoes, ResetStartDoes, ResetCountDoes, CountLoadDoes, CountStoreDoes
    <3>2. UNCHANGED << rx, amf_xdp_stats >>
      BY <2>7 DEF RateLookup, RateInit, WindowCheck, ResetStart,
                  ResetCount, CountLoad, CountStore, log_vars
    <3>3. QED
      BY <3>1, <3>2, <1>2, InFlightStep
  <2>6. QED
    BY <2>1, <2>2, <2>3, <2>4, <2>5, <2>7 DEF Program, CheckState
<1>4. CASE \/ Tick \/ PopulateHead \/ PopulateTail
           \/ (\E src \in Sources : Age(src)) \/ (\E src \in Sources : AgeUe(src))
  BY <1>4, <1>2 DEF Tick, PopulateHead, PopulateTail, Age, AgeUe, InFlight, log_vars
<1>5. CASE UNCHANGED vars
  BY <1>5, <1>2 DEF vars, InFlight, log_vars
<1>6. QED
  BY <1>3, <1>4, <1>5 DEF Next

-----------------------------------------------------------------------------
(***************************************************************************)
(* QuietSourceNeverDropped.                                                *)
(***************************************************************************)
LEMMA PendingMoves ==
    ASSUME TypeOK, NEW c \in CPUs, OnlyCpu(c), NEW s \in Sources
    PROVE  /\ Cardinality(Pending(s)) \in Nat /\ Cardinality(Pending(s)') \in Nat
           /\ pc[c] \notin Uncounted /\ pc'[c] \in Uncounted =>
                Cardinality(Pending(s)') = Cardinality(Pending(s)) + (IF s = loc'[c].src THEN 1 ELSE 0)
           /\ pc[c] \in Uncounted /\ pc'[c] \notin Uncounted =>
                Cardinality(Pending(s)') = Cardinality(Pending(s)) - (IF s = loc[c].src THEN 1 ELSE 0)
           /\ pc[c] \in Uncounted /\ pc'[c] \in Uncounted /\ loc'[c].src = loc[c].src =>
                Pending(s)' = Pending(s)
           /\ pc[c] \notin Uncounted /\ pc'[c] \notin Uncounted => Pending(s)' = Pending(s)
<1>1. Pending(s) \subseteq CPUs /\ Pending(s)' \subseteq CPUs
  BY DEF Pending
<1>2. ASSUME pc[c] \notin Uncounted, pc'[c] \in Uncounted
      PROVE  /\ c \notin Pending(s)
             /\ Pending(s)' = IF s = loc'[c].src THEN Pending(s) \cup {c} ELSE Pending(s)
  BY <1>2 DEF Pending, OnlyCpu
<1>3. ASSUME pc[c] \in Uncounted, pc'[c] \notin Uncounted
      PROVE  /\ s = loc[c].src => c \in Pending(s)
             /\ Pending(s)' = IF s = loc[c].src THEN Pending(s) \ {c} ELSE Pending(s)
  BY <1>3 DEF Pending, OnlyCpu
<1>4. ASSUME pc[c] \in Uncounted, pc'[c] \in Uncounted, loc'[c].src = loc[c].src
      PROVE  Pending(s)' = Pending(s)
  BY <1>4 DEF Pending, OnlyCpu
<1>5. ASSUME pc[c] \notin Uncounted, pc'[c] \notin Uncounted
      PROVE  Pending(s)' = Pending(s)
  BY <1>5 DEF Pending, OnlyCpu
<1>6. Cardinality(Pending(s)) \in Nat /\ Cardinality(Pending(s)') \in Nat
  BY <1>1, CpusFinite
<1>7. ASSUME pc[c] \notin Uncounted, pc'[c] \in Uncounted
      PROVE  Cardinality(Pending(s)') = Cardinality(Pending(s)) + (IF s = loc'[c].src THEN 1 ELSE 0)
  BY <1>1, <1>2, <1>6, <1>7, OneMore
<1>8. ASSUME pc[c] \in Uncounted, pc'[c] \notin Uncounted
      PROVE  Cardinality(Pending(s)') = Cardinality(Pending(s)) - (IF s = loc[c].src THEN 1 ELSE 0)
  BY <1>1, <1>3, <1>6, <1>8, OneMore
<1>9. QED
  BY <1>4, <1>5, <1>6, <1>7, <1>8

LEMMA CountedInt ==
    ASSUME TypeOK, NEW s \in Sources
    PROVE  /\ Counted(s) \in Int /\ Len(arrived[s]) \in Nat /\ Counted(s) <= Len(arrived[s])
           /\ \A c \in Pending(s) : Counted(s) < Len(arrived[s])
<1>1. Pending(s) \subseteq CPUs /\ Len(arrived[s]) \in Nat
  BY DEF Pending, TypeOK
<1>2. Cardinality(Pending(s)) \in Nat
  BY <1>1, CpusFinite
<1>3. ASSUME NEW c \in Pending(s) PROVE Cardinality(Pending(s)) # 0
  <2>1. IsFiniteSet(Pending(s))
    BY <1>1, CpusFinite
  <2>2. QED
    BY <2>1, FS_EmptySet
<1>4. QED
  BY <1>1, <1>2, <1>3 DEF Counted

\* A message is counted once, by the step that writes the counter.
Counts(c) == RateInit(c) \/ ResetCount(c) \/ CountStore(c)

LEMMA CountsDoes ==
    ASSUME TypeOK, NEW c \in CPUs, Counts(c), NEW s \in Sources
    PROVE  /\ Counted(s)' = Counted(s) + (IF s = loc[c].src THEN 1 ELSE 0)
           /\ UNCHANGED << arrived, drops >>
           /\ c \in Pending(loc[c].src)
<1>1. OnlyCpu(c) /\ pc[c] \in Uncounted /\ pc'[c] \notin Uncounted
  BY RateInitDoes, ResetCountDoes, CountStoreDoes DEF Counts, Uncounted, Steps, Holding
<1>2. UNCHANGED << arrived, drops >>
  BY DEF Counts, RateInit, ResetCount, CountStore, log_vars
<1>3. Cardinality(Pending(s)') = Cardinality(Pending(s)) - (IF s = loc[c].src THEN 1 ELSE 0)
  BY <1>1, PendingMoves
<1>4. Len(arrived[s]) \in Nat /\ Cardinality(Pending(s)) \in Nat
  BY <1>1, PendingMoves DEF TypeOK
<1>5. Counted(s)' = Counted(s) + (IF s = loc[c].src THEN 1 ELSE 0)
  BY <1>2, <1>3, <1>4 DEF Counted
<1>6. QED
  BY <1>1, <1>2, <1>5 DEF Pending

LEMMA ReceiveCounted ==
    ASSUME TypeOK, NEW c \in CPUs, NEW src \in Sources, Receive(c, src), NEW s \in Sources
    PROVE  Counted(s)' = Counted(s) /\ Len(arrived'[s]) >= Len(arrived[s]) /\ UNCHANGED drops
<1>1. Cardinality(Pending(s)') = Cardinality(Pending(s)) + (IF s = src THEN 1 ELSE 0)
  BY ReceiveDoes, PendingMoves DEF Uncounted, Steps
<1>2. arrived' = [arrived EXCEPT ![src] = Append(@, now)] /\ arrived \in [Sources -> Seq(Nat)] /\ now \in Nat
  BY BoundsNat DEF Receive, TypeOK
<1>3. Len(arrived'[s]) = Len(arrived[s]) + (IF s = src THEN 1 ELSE 0) /\ Len(arrived[s]) \in Nat
  BY <1>2
<1>4. Cardinality(Pending(s)) \in Nat /\ UNCHANGED drops
  BY ReceiveDoes, PendingMoves DEF Receive
<1>5. Counted(s)' = Len(arrived'[s]) - Cardinality(Pending(s)')
  BY DEF Counted
<1>6. Counted(s)' = Counted(s) /\ Len(arrived'[s]) >= Len(arrived[s])
  <2>1. CASE s = src
    BY <1>1, <1>3, <1>4, <1>5, <2>1 DEF Counted
  <2>2. CASE s # src
    BY <1>1, <1>3, <1>4, <1>5, <2>2 DEF Counted
  <2>3. QED
    BY <2>1, <2>2
<1>7. QED
  BY <1>4, <1>6

\* The other steps of the program.
Others(c) ==
    CheckState(c) \/ Flag(c) \/ RateLookup(c) \/ WindowCheck(c) \/ ResetStart(c) \/ CountLoad(c)

LEMMA OthersCounted ==
    ASSUME TypeOK, NEW c \in CPUs, Others(c) \/ Pass(c) \/ Drop(c), NEW s \in Sources
    PROVE  Counted(s)' = Counted(s) /\ UNCHANGED arrived
<1>1. CASE Others(c)
  <2>1. OnlyCpu(c) /\ pc[c] \in Uncounted /\ pc'[c] \in Uncounted /\ loc'[c].src = loc[c].src
    BY <1>1, CheckStateDoes, FlagDoes, RateLookupDoes,
       WindowCheckDoes, ResetStartDoes, CountLoadDoes DEF Others, Uncounted, Steps, Holding, Checking
  <2>2. UNCHANGED arrived
    BY <1>1, CheckStateDoes DEF Others, Flag, RateLookup, WindowCheck, ResetStart, CountLoad, log_vars
  <2>3. Pending(s)' = Pending(s)
    BY <2>1, PendingMoves
  <2>4. QED
    BY <2>2, <2>3 DEF Counted
<1>2. CASE Pass(c) \/ Drop(c)
  <2>1. Pending(s)' = Pending(s)
    BY <1>2, VerdictDoes, PendingMoves DEF Uncounted
  <2>2. QED
    BY <1>2, <2>1 DEF Counted, Pass, Drop
<1>3. QED
  BY <1>1, <1>2

\* The program's environment touches nothing that is counted.
Environment ==
    \/ Tick \/ PopulateHead \/ PopulateTail
    \/ (\E src \in Sources : Age(src)) \/ (\E src \in Sources : AgeUe(src)) \/ UNCHANGED vars

LEMMA EnvironmentDoes ==
    ASSUME TypeOK, Environment
    PROVE  /\ UNCHANGED << pc, arrived, drops, rate_entry, reused >>
           /\ \A d \in CPUs : SameLocals(d)
           /\ \A s \in Sources : Counted(s)' = Counted(s)
<1>1. UNCHANGED << pc, arrived, drops, rate_entry, reused >>
  BY DEF Environment, Tick, PopulateHead, PopulateTail, Age, AgeUe, vars, rate_vars, log_vars
<1>2. \A d \in CPUs : SameLocals(d)
  <2>1. CASE PopulateHead
    BY <2>1, PopulateHeadDoes
  <2>2. CASE ~PopulateHead
    BY <2>2 DEF Environment, Tick, PopulateTail, Age, AgeUe, vars, SameLocals
  <2>3. QED
    BY <2>1, <2>2
<1>3. QED
  BY <1>1, <1>2 DEF Counted, Pending, SameLocals

\* Only RateInit() gives a source an element.
LEMMA HeldShrinks ==
    ASSUME TypeOK, NEW s \in Sources,
           \/ Environment
           \/ \E c \in CPUs : \/ \E src \in Sources : Receive(c, src)
                              \/ Others(c) \/ ResetCount(c) \/ CountStore(c) \/ Pass(c) \/ Drop(c)
    PROVE  Held(s)' \subseteq Held(s)
<1>1. CASE Environment
  <2>1. rate_elem'[s] \in {rate_elem[s], NULL}
    BY <1>1 DEF Environment, Tick, PopulateHead, PopulateTail, Age, AgeUe, vars, rate_vars, TypeOK
  <2>2. UNCHANGED pc /\ \A d \in CPUs : SameLocals(d)
    BY <1>1, EnvironmentDoes
  <2>3. QED
    BY <2>1, <2>2, BoundsNat DEF Held, SameLocals
<1>2. ASSUME NEW c \in CPUs, OnlyCpu(c), UNCHANGED rate_elem,
             \/ pc'[c] \notin Holding
             \/ pc[c] \in Holding /\ loc'[c].src = loc[c].src /\ loc'[c].e = loc[c].e
             \/ loc'[c].e = rate_elem[loc'[c].src]
      PROVE  Held(s)' \subseteq Held(s)
  BY <1>2 DEF Held, OnlyCpu
<1>3. ASSUME NEW c \in CPUs, NEW src \in Sources, Receive(c, src)
      PROVE  Held(s)' \subseteq Held(s)
  BY <1>2, <1>3, ReceiveDoes DEF Receive, rate_vars, Holding
<1>4. ASSUME NEW c \in CPUs, Pass(c) \/ Drop(c) \/ ResetCount(c) \/ CountStore(c)
      PROVE  Held(s)' \subseteq Held(s)
  <2>1. OnlyCpu(c) /\ pc'[c] \notin Holding
    BY <1>4, VerdictDoes, ResetCountDoes, CountStoreDoes DEF Holding
  <2>2. UNCHANGED rate_elem
    BY <1>4 DEF Pass, Drop, ResetCount, CountStore, rate_vars
  <2>3. QED
    BY <2>1, <2>2, <1>2
<1>5. ASSUME NEW c \in CPUs, Others(c)
      PROVE  Held(s)' \subseteq Held(s)
  <2>1. UNCHANGED rate_elem
    BY <1>5, CheckStateDoes DEF Others, Flag, RateLookup, WindowCheck, ResetStart,
                CountLoad, rate_vars
  <2>2. CASE CheckState(c) \/ Flag(c)
    BY <2>1, <2>2, <1>2, CheckStateDoes, FlagDoes DEF Holding, Checking
  <2>3. CASE RateLookup(c)
    BY <2>1, <2>3, <1>2, RateLookupDoes
  <2>4. CASE WindowCheck(c) \/ ResetStart(c) \/ CountLoad(c)
    BY <2>1, <2>4, <1>2, WindowCheckDoes, ResetStartDoes, CountLoadDoes DEF Holding
  <2>5. QED
    BY <1>5, <2>2, <2>3, <2>4 DEF Others
<1>6. QED
  BY <1>1, <1>3, <1>4, <1>5

\* The frame of RateInv: a step that writes no counter and takes no CPU to a store
\* or a drop.
LEMMA RateFrame ==
    ASSUME TypeOK, RateInv, reused' = reused,
           \A s \in Sources : /\ Held(s)' \subseteq Held(s) /\ Counted(s)' = Counted(s)
                              /\ Len(arrived'[s]) >= Len(arrived[s]) /\ Len(arrived'[s]) \in Nat,
           \A x \in RateElems : rate_entry'[x].count = rate_entry[x].count,
           \A d \in CPUs : pc'[d] = "count_store" =>
             \/ pc[d] = "count_store" /\ loc'[d].src = loc[d].src /\ loc'[d].n = loc[d].n
             \/ loc'[d].src = loc[d].src /\ pc[d] = "count_load"
                /\ loc'[d].n = rate_entry[loc[d].e].count + 1,
           \A d \in CPUs : pc'[d] = "drop" => pc[d] = "drop" /\ loc'[d].src = loc[d].src,
           \A s \in Sources : drops'[s] = drops[s] \/ Len(arrived[s]) > RATE_MAX_PER_WIN \/ reused
    PROVE  RateInv'
<1>1. \A s \in Sources : Counted(s) >= 0 /\ Counted(s) \in Int /\ Len(arrived[s]) \in Nat
  BY CountedInt DEF RateInv
<1>2. QuietSourceNeverDropped'
  BY <1>1, BoundsNat DEF RateInv, QuietSourceNeverDropped
<1>3. ASSUME ~reused
      PROVE  OneOwner' /\ CountsBehind' /\ StoresBehind' /\ DropsExceed'
  <2>1. OneOwner /\ CountsBehind /\ StoresBehind /\ DropsExceed
    BY <1>3 DEF RateInv
  <2>2. OneOwner'
    BY <2>1 DEF OneOwner
  <2>3. CountsBehind'
    <3> SUFFICES ASSUME NEW s \in Sources, NEW x \in Held(s)'
                 PROVE  rate_entry'[x].count >= 1 /\ rate_entry'[x].count <= Counted(s)'
      BY DEF CountsBehind
    <3>1. x \in Held(s) /\ x \in RateElems
      BY DEF Held
    <3>2. QED
      BY <2>1, <3>1 DEF CountsBehind
  <2>4. StoresBehind'
    <3> SUFFICES ASSUME NEW d \in CPUs, NEW s \in Sources, pc'[d] = "count_store", loc'[d].src = s
                 PROVE  loc'[d].n >= 1 /\ loc'[d].n <= Counted(s)' + 1
      BY DEF StoresBehind
    <3>1. CASE pc[d] = "count_store" /\ loc'[d].src = loc[d].src /\ loc'[d].n = loc[d].n
      BY <2>1, <3>1 DEF StoresBehind
    <3>2. CASE /\ loc'[d].src = loc[d].src /\ pc[d] = "count_load"
               /\ loc'[d].n = rate_entry[loc[d].e].count + 1
      <4>1. loc[d].e \in RateElems
        BY <3>2, AtWork DEF Holding
      <4>2. loc[d].e \in Held(s)
        BY <3>2, <4>1 DEF Held, Holding
      <4>3. rate_entry[loc[d].e].count \in Nat /\ rate_entry[loc[d].e].count <= Counted(s)
        BY <2>1, <4>1, <4>2 DEF CountsBehind, TypeOK
      <4>4. QED
        BY <1>1, <3>2, <4>3
    <3>3. QED
      BY <3>1, <3>2
  <2>5. DropsExceed'
    <3> SUFFICES ASSUME NEW d \in CPUs, pc'[d] = "drop"
                 PROVE  Len(arrived'[loc'[d].src]) > RATE_MAX_PER_WIN
      BY DEF DropsExceed
    <3>1. pc[d] = "drop" /\ loc'[d].src = loc[d].src /\ loc[d].src \in Sources
      BY AtWork
    <3>2. QED
      BY <1>1, <2>1, <3>1, BoundsNat DEF DropsExceed
  <2>6. QED
    BY <2>2, <2>3, <2>4, <2>5
<1>4. \A s \in Sources : Counted(s)' >= 0
  BY <1>1
<1>5. QED
  BY <1>2, <1>3, <1>4, Zenon DEF RateInv

\* The steps that count a message, e being the element written and v the value.
LEMMA CountsFrame ==
    ASSUME TypeOK, RateInv, NEW c \in CPUs, Counts(c), OnlyCpu(c), loc'[c] = loc[c],
           NEW e \in RateElems, NEW v,
           ~reused' => ~reused,
           \A s \in Sources : \A x \in Held(s)' : x \in Held(s) \/ (s = loc[c].src /\ x = e),
           \A x \in RateElems : rate_entry'[x].count = IF x = e THEN v ELSE rate_entry[x].count,
           ~reused' => /\ \A s \in Sources : e \in Held(s) => s = loc[c].src
                       /\ v \in Nat /\ v >= 1
                       /\ \A s \in Sources : s = loc[c].src => v <= Counted(s) + 1,
           pc'[c] # "count_store",
           pc'[c] = "drop" /\ ~reused' => Len(arrived[loc[c].src]) > RATE_MAX_PER_WIN
    PROVE  RateInv'
<1>1. \A s \in Sources : /\ Counted(s)' = Counted(s) + (IF s = loc[c].src THEN 1 ELSE 0)
                         /\ UNCHANGED << arrived, drops >>
  BY CountsDoes
<1>2. \A s \in Sources : Counted(s) \in Int /\ Counted(s) >= 0
  BY CountedInt DEF RateInv
<1>3. \A s \in Sources : Counted(s)' >= 0 /\ Counted(s)' >= Counted(s) /\ Counted(s)' \in Int
  BY <1>1, <1>2
<1>4. UNCHANGED << arrived, drops >>
  BY DEF Counts, RateInit, ResetCount, CountStore, log_vars
<1>5. QuietSourceNeverDropped'
  BY <1>4 DEF RateInv, QuietSourceNeverDropped
<1>6. ASSUME ~reused'
      PROVE  OneOwner' /\ CountsBehind' /\ StoresBehind' /\ DropsExceed'
  <2>1. OneOwner /\ CountsBehind /\ StoresBehind /\ DropsExceed
    BY <1>6 DEF RateInv
  <2>2. OneOwner'
    BY <1>6, <2>1 DEF OneOwner
  <2>3. CountsBehind'
    <3> SUFFICES ASSUME NEW s \in Sources, NEW x \in Held(s)'
                 PROVE  rate_entry'[x].count >= 1 /\ rate_entry'[x].count <= Counted(s)'
      BY DEF CountsBehind
    <3>1. x \in RateElems
      BY DEF Held
    <3>2. CASE x = e
      <4>1. s = loc[c].src
        BY <1>6, <3>2
      <4>2. v <= Counted(s) + 1 /\ Counted(s)' = Counted(s) + 1 /\ rate_entry'[x].count = v
        BY <1>1, <1>6, <3>1, <3>2, <4>1
      <4>3. QED
        BY <1>2, <1>6, <4>2
    <3>3. CASE x # e
      <4>1. x \in Held(s) /\ rate_entry'[x].count = rate_entry[x].count /\ rate_entry[x].count \in Nat
        BY <3>1, <3>3 DEF TypeOK
      <4>2. QED
        BY <1>2, <1>3, <2>1, <4>1 DEF CountsBehind
    <3>4. QED
      BY <3>2, <3>3
  <2>4. StoresBehind'
    <3> SUFFICES ASSUME NEW d \in CPUs, NEW s \in Sources, pc'[d] = "count_store", loc'[d].src = s
                 PROVE  loc'[d].n >= 1 /\ loc'[d].n <= Counted(s)' + 1
      BY DEF StoresBehind
    <3>1. d # c /\ pc[d] = "count_store" /\ loc'[d] = loc[d]
      BY DEF OnlyCpu
    <3>2. loc[d].n \in Nat /\ loc[d].n >= 1 /\ loc[d].n <= Counted(s) + 1
      BY <2>1, <3>1, AtWork DEF StoresBehind
    <3>3. QED
      BY <1>2, <1>3, <3>1, <3>2
  <2>5. DropsExceed'
    BY <1>4, <1>6, <2>1 DEF DropsExceed, OnlyCpu
  <2>6. QED
    BY <2>2, <2>3, <2>4, <2>5
<1>7. QED
  BY <1>3, <1>5, <1>6, Zenon DEF RateInv

LEMMA CountsStep ==
    ASSUME TypeOK, RateInv, NEW c \in CPUs, Counts(c)
    PROVE  RateInv'
<1> DEFINE src == loc[c].src
<1>1. /\ OnlyCpu(c) /\ loc'[c] = loc[c] /\ pc[c] # "idle" /\ pc'[c] # "count_store"
      /\ pc'[c] = "drop" => CountStore(c)
  BY RateInitDoes, ResetCountDoes, CountStoreDoes DEF Counts
<1>2. src \in Sources /\ Counted(src) \in Int /\ Counted(src) >= 0
  BY <1>1, AtWork, CountedInt DEF RateInv
<1>3. CASE RateInit(c)
  <2>1. PICK e \in RateElems :
             /\ \A s \in Sources : rate_elem[s] # e
             /\ rate_elem' \in [Sources -> RateElems \cup {NULL}]
             /\ rate_elem'[loc[c].src] = e
             /\ \A s \in Sources : s # loc[c].src => rate_elem'[s] = rate_elem[s]
             /\ rate_entry' \in [RateElems -> RateEntries]
             /\ \A x \in RateElems :
                  rate_entry'[x].count = IF x = e THEN 1 ELSE rate_entry[x].count
             /\ reused' \in BOOLEAN
             /\ ~reused' => ~reused /\ rate_entry[e].count = 0
    BY <1>3, RateInitWrites
  <2>2. \A s \in Sources : \A x \in Held(s)' : x \in Held(s) \/ (s = src /\ x = e)
    <3>1. pc'[c] \notin Holding
      BY <1>3, RateInitDoes DEF Holding
    <3>2. QED
      BY <1>1, <2>1, <3>1 DEF Held, OnlyCpu
  <2>3. ~reused' => \A s \in Sources : e \notin Held(s)
    BY <2>1 DEF RateInv, CountsBehind
  <2>4. \A s \in Sources : s = src => 1 <= Counted(s) + 1
    BY <1>2
  <2>5. ~reused' => ~reused
    BY <2>1
  <2>6. /\ \A x \in RateElems : rate_entry'[x].count = IF x = e THEN 1 ELSE rate_entry[x].count
        /\ pc'[c] # "drop" /\ 1 \in Nat /\ 1 >= 1
    BY <1>3, <2>1, RateInitDoes
  <2>7. QED
    BY <1>1, <2>2, <2>3, <2>4, <2>5, <2>6, CountsFrame
<1>4. CASE ResetCount(c) \/ CountStore(c)
  <2> DEFINE e == loc[c].e
             v == IF ResetCount(c) THEN 1 ELSE loc[c].n
  <2>1. e \in RateElems /\ pc[c] \in Holding /\ loc[c].n \in Nat
    BY <1>4, ResetCountDoes, CountStoreDoes, AtWork DEF Holding
  <2>2. e \in Held(src)
    BY <2>1 DEF Held
  <2>3. reused' = reused
    BY <1>4 DEF ResetCount, CountStore
  <2>4. \A s \in Sources : \A x \in Held(s)' : x \in Held(s)
    BY <1>4, HeldShrinks
  <2>5. ~(ResetCount(c) /\ CountStore(c))
    BY ResetCountDoes, CountStoreDoes
  <2>6. \A x \in RateElems : rate_entry'[x].count = IF x = e THEN v ELSE rate_entry[x].count
    BY <1>4, <2>5, ResetCountWrites, CountStoreWrites
  <2>7. v \in Nat
    BY <2>1
  <2>8. ASSUME ~reused, CountStore(c)
        PROVE  loc[c].n >= 1 /\ loc[c].n <= Counted(src) + 1
    BY <1>2, <2>8, CountStoreDoes DEF RateInv, StoresBehind
  <2>9. ~reused => v >= 1 /\ v <= Counted(src) + 1
    BY <1>2, <1>4, <2>5, <2>8
  <2>10. ~reused => \A s \in Sources : e \in Held(s) => s = src
    BY <1>2, <2>2 DEF RateInv, OneOwner
  <2>11. ASSUME pc'[c] = "drop", ~reused'
         PROVE  Len(arrived[src]) > RATE_MAX_PER_WIN
    <3>1. CountStore(c) /\ loc[c].n > RATE_MAX_PER_WIN
      BY <1>1, <2>11, CountStoreDoes
    <3>2. loc[c].n <= Counted(src) + 1
      BY <2>3, <2>8, <2>11, <3>1
    <3>3. c \in Pending(src)
      BY <1>2, CountsDoes
    <3>4. Counted(src) < Len(arrived[src]) /\ Len(arrived[src]) \in Nat
      BY <1>2, <3>3, CountedInt
    <3>5. QED
      BY <1>2, <2>1, <3>1, <3>2, <3>4, BoundsNat
  <2> HIDE DEF e, v
  <2>12. /\ ~reused' => ~reused
         /\ ~reused' => /\ \A s \in Sources : e \in Held(s) => s = src
                        /\ v \in Nat /\ v >= 1
                        /\ \A s \in Sources : s = src => v <= Counted(s) + 1
    BY <2>3, <2>7, <2>9, <2>10
  <2>13. QED
    BY <1>1, <2>1, <2>4, <2>6, <2>11, <2>12, CountsFrame DEF e
<1>5. QED
  BY <1>3, <1>4 DEF Counts

LEMMA RateStep ==
    ASSUME TypeOK, RateInv, [Next]_vars
    PROVE  RateInv'
<1>1. \A s \in Sources : Len(arrived[s]) \in Nat /\ Len(arrived[s]) >= Len(arrived[s])
  BY DEF TypeOK
<1>2. CASE Environment
  <2>1. UNCHANGED << pc, arrived, drops, rate_entry, reused >> /\ \A d \in CPUs : SameLocals(d)
    BY <1>2, EnvironmentDoes
  <2>2. \A s \in Sources : Held(s)' \subseteq Held(s) /\ Counted(s)' = Counted(s)
    BY <1>2, EnvironmentDoes, HeldShrinks
  <2>3. QED
    BY <1>1, <2>1, <2>2, RateFrame DEF SameLocals
<1>3. ASSUME NEW c \in CPUs, NEW src \in Sources, Receive(c, src)
      PROVE  RateInv'
  <2>1. OnlyCpu(c) /\ pc'[c] = "ue_lookup"
    BY <1>3, ReceiveDoes
  <2>2. UNCHANGED << drops, rate_entry, reused >>
    BY <1>3 DEF Receive, rate_vars
  <2>3. \A s \in Sources : /\ Held(s)' \subseteq Held(s) /\ Counted(s)' = Counted(s)
                           /\ Len(arrived'[s]) >= Len(arrived[s])
    BY <1>3, ReceiveCounted, HeldShrinks
  <2>4. \A s \in Sources : Len(arrived'[s]) \in Nat
    BY <1>3, TypeStep DEF Next, Program, TypeOK
  <2>5. \A d \in CPUs : /\ pc'[d] = "count_store" => pc[d] = "count_store" /\ loc'[d] = loc[d]
                        /\ pc'[d] = "drop" => pc[d] = "drop" /\ loc'[d] = loc[d]
    BY <2>1 DEF OnlyCpu
  <2>6. QED
    BY <2>2, <2>3, <2>4, <2>5, RateFrame
<1>4. ASSUME NEW c \in CPUs, Others(c) \/ Pass(c) \/ Drop(c)
      PROVE  RateInv'
  <2>1. /\ OnlyCpu(c) /\ pc'[c] # "drop"
        /\ pc'[c] = "count_store" => CountLoad(c)
    BY <1>4, CheckStateDoes, FlagDoes, RateLookupDoes,
       WindowCheckDoes, ResetStartDoes, CountLoadDoes, VerdictDoes DEF Others, Checking
  <2>2. /\ reused' = reused /\ arrived' = arrived
        /\ \A x \in RateElems : rate_entry'[x].count = rate_entry[x].count
    <3>1. CASE ResetStart(c)
      BY <3>1, ResetStartWrites DEF ResetStart, log_vars
    <3>2. CASE ~ResetStart(c)
      BY <1>4, <3>2, CheckStateDoes DEF Others, Flag, RateLookup, WindowCheck,
                        CountLoad, Pass, Drop, rate_vars, log_vars
    <3>3. QED
      BY <3>1, <3>2
  <2>3. \A s \in Sources : Held(s)' \subseteq Held(s) /\ Counted(s)' = Counted(s)
    BY <1>4, OthersCounted, HeldShrinks
  <2>4. \A s \in Sources : drops'[s] = drops[s] \/ Len(arrived[s]) > RATE_MAX_PER_WIN \/ reused
    <3>1. CASE Drop(c)
      <4>1. pc[c] = "drop"
        BY <3>1, VerdictDoes
      <4>2. reused \/ Len(arrived[loc[c].src]) > RATE_MAX_PER_WIN
        BY <4>1 DEF RateInv, DropsExceed
      <4>3. \A s \in Sources : s # loc[c].src => drops'[s] = drops[s]
        BY <3>1 DEF Drop, TypeOK
      <4>4. QED
        BY <4>2, <4>3
    <3>2. CASE ~Drop(c)
      BY <1>4, <3>2, CheckStateDoes DEF Others, Flag, RateLookup, WindowCheck,
                        ResetStart, CountLoad, Pass, log_vars
    <3>3. QED
      BY <3>1, <3>2
  <2>5. \A d \in CPUs : pc'[d] = "count_store" =>
             \/ pc[d] = "count_store" /\ loc'[d] = loc[d]
             \/ loc'[d].src = loc[d].src /\ pc[d] = "count_load"
                /\ loc'[d].n = rate_entry[loc[d].e].count + 1
    BY <2>1, CountLoadDoes DEF OnlyCpu
  <2>6. \A d \in CPUs : pc'[d] = "drop" => pc[d] = "drop" /\ loc'[d] = loc[d]
    BY <2>1 DEF OnlyCpu
  <2>7. QED
    BY <1>1, <2>2, <2>3, <2>4, <2>5, <2>6, RateFrame
<1>5. QED
  BY <1>2, <1>3, <1>4, CountsStep DEF Next, Program, Others, Counts, Environment, CheckState

-----------------------------------------------------------------------------
(***************************************************************************)
(* UeStateFromTable.                                                       *)
(***************************************************************************)
\* The element that is filled next is in no entry.
LEMMA FreeApart ==
    ASSUME TypeOK, EdgesApart
    PROVE  \A i \in Edges : edge_elem[i] # FreeElem
<1>1. populate.next \in Edges /\ populate.run \in Nat /\ \A i \in Edges : i \in Nat /\ i >= 1 /\ i # NULL
  BY BoundsNat DEF TypeOK, Edges
<1>2. CASE edge_elem[populate.next] = NULL
  <2>1. populate.run = 0
    BY <1>1, <1>2 DEF EdgesApart
  <2>2. FreeElem = populate.next
    BY <1>2 DEF FreeElem
  <2>3. QED
    BY <1>1, <2>1, <2>2 DEF EdgesApart
<1>3. CASE edge_elem[populate.next] # NULL
  BY <1>3 DEF EdgesApart, FreeElem
<1>4. QED
  BY <1>2, <1>3

LEMMA TextParts ==
    ASSUME NEW x \in Text, NEW name
    PROVE  /\ x = Whole(name) <=> \A p \in Parts : x[p] = name
           /\ \A p \in Parts : p = "head" \/ p = "tail"
BY DEF Text, Whole, Parts

LEMMA PopulateHeadStates ==
    ASSUME TypeOK, StateInv, PopulateHead
    PROVE  StateInv'
<1>1. EdgesApart /\ EdgesHold /\ PointersHold /\ CopiesHold /\ UeApart /\ UeStateFromTable
  BY DEF StateInv
<1>2. UNCHANGED << edge_elem, spare, ue_elem, ue_state, overtaken, pc >>
  BY DEF PopulateHead, ue_vars
<1>3. \A i \in Edges : edge_elem[i] # FreeElem
  BY <1>1, FreeApart
<1>4. FreeElem' = FreeElem /\ populate'.next = populate.next /\ populate'.run = populate.run
  BY <1>2, PopulateHeadDoes DEF FreeElem
<1>5. EdgesApart'
  BY <1>1, <1>2, <1>4, PopulateHeadDoes DEF EdgesApart
<1>6. EdgesHold'
  <2> SUFFICES ASSUME NEW i \in Edges, edge_elem[i] # NULL
               PROVE  edge_to'[edge_elem[i]] = Whole(EdgeVal(i))
    BY <1>2 DEF EdgesHold
  <2>1. edge_elem[i] \in EdgeElems /\ edge_elem[i] # FreeElem
    BY <1>3 DEF TypeOK
  <2>2. QED
    BY <1>1, <2>1, PopulateHeadDoes DEF EdgesHold
<1>7. PointersHold'
  <2> SUFFICES ASSUME NEW c \in CPUs, pc[c] \in Copying
               PROVE  /\ \A p \in Parts : FromEdge(c, edge_to[loc[c].edge], p)'
                      /\ populate'.new = loc'[c].edge => loc'[c].late
    BY <1>2 DEF PointersHold
  <2>1. loc[c].edge \in EdgeElems /\ loc'[c].edge = loc[c].edge /\ (loc[c].late => loc'[c].late)
    BY GetLocals, PopulateHeadDoes DEF TypeOK, Copying, SameLocals
  <2>2. CASE loc[c].edge = FreeElem
    <3>1. loc'[c].late
      BY <2>2, PopulateHeadDoes
    <3>2. ASSUME NEW p \in Parts PROVE edge_to'[FreeElem][p] \in FsmStates
      <4>1. CASE p = "head"
        BY <4>1, PopulateHeadDoes, FreeElemType
      <4>2. CASE p = "tail"
        BY <1>1, <2>2, <4>2, PopulateHeadDoes DEF PointersHold, FromEdge, Parts
      <4>3. QED
        BY <4>1, <4>2 DEF Parts
    <3>3. QED
      BY <2>1, <2>2, <3>1, <3>2 DEF FromEdge
  <2>3. CASE loc[c].edge # FreeElem
    <3>1. edge_to'[loc[c].edge] = edge_to[loc[c].edge] /\ populate'.new = FreeElem
      BY <2>1, <2>3, PopulateHeadDoes
    <3>2. \A p \in Parts : FromEdge(c, edge_to[loc[c].edge], p)
      BY <1>1 DEF PointersHold
    <3>3. QED
      BY <2>1, <2>3, <3>1, <3>2 DEF FromEdge
  <2>4. QED
    BY <2>2, <2>3
<1>8. CopiesHold'
  <2>1. \A c \in CPUs : loc'[c].name = loc[c].name /\ (loc[c].late => loc'[c].late)
    BY PopulateHeadDoes DEF SameLocals
  <2>2. QED
    BY <1>1, <1>2, <2>1 DEF CopiesHold, FromEdge
<1>9. UeApart'
  <2>1. \A c \in CPUs : loc'[c].name = loc[c].name /\ loc'[c].new = loc[c].new
    BY PopulateHeadDoes DEF SameLocals
  <2>2. QED
    BY <1>1, <1>2, <2>1 DEF UeApart
<1>10. UeStateFromTable'
  BY <1>1, <1>2 DEF UeStateFromTable
<1>11. QED
  BY <1>5, <1>6, <1>7, <1>8, <1>9, <1>10 DEF StateInv

LEMMA PopulateTailApart ==
    ASSUME TypeOK, EdgesApart, PopulateTail
    PROVE  EdgesApart'
<1> DEFINE i == populate.next
           new == populate.new
<1>1. /\ populate.run \in Nat /\ i \in Edges /\ new # NULL /\ new = FreeElem /\ new \in EdgeElems
      /\ EdgesModelled \in Nat /\ \A j \in Edges : j \in Nat /\ j >= 1 /\ j <= EdgesModelled /\ j # NULL
  BY PopulateTailDoes, FreeElemType, BoundsNat DEF EdgesApart, Edges
<1>2. \A j \in Edges : edge_elem[j] # new
  BY <1>1, FreeApart
<1>3. /\ edge_elem'[i] = new /\ \A j \in Edges : j # i => edge_elem'[j] = edge_elem[j]
      /\ spare' = IF edge_elem[i] = NULL THEN spare ELSE edge_elem[i]
      /\ populate'.new = NULL
      /\ \/ i < EdgesModelled /\ populate'.run = populate.run /\ populate'.next = i + 1
         \/ i = EdgesModelled /\ populate'.run = populate.run + 1 /\ populate'.next = 1
  BY PopulateTailDoes
<1>4. \A j, k \in Edges : edge_elem'[j] = edge_elem'[k] /\ edge_elem'[j] # NULL => j = k
  BY <1>2, <1>3 DEF EdgesApart
<1>5. CASE populate.run = 0
  <2>1. spare = 0 /\ edge_elem[i] = NULL /\ \A j \in Edges : edge_elem[j] = IF j < i THEN j ELSE NULL
    BY <1>1, <1>5 DEF EdgesApart
  <2>2. new = i /\ spare' = 0
    BY <1>1, <1>3, <2>1 DEF FreeElem
  <2>3. \A j \in Edges : edge_elem'[j] = IF j < i + 1 THEN j ELSE NULL
    BY <1>1, <1>3, <2>1, <2>2
  <2>4. \A j \in Edges : edge_elem'[j] # spare'
    BY <1>1, <2>2, <2>3, BoundsNat DEF Edges
  <2>5. populate'.run = 0 => \A j \in Edges : edge_elem'[j] = IF j < populate'.next THEN j ELSE NULL
    BY <1>1, <1>3, <1>5, <2>3
  <2>6. populate'.run > 0 => \A j \in Edges : edge_elem'[j] # NULL
    BY <1>1, <1>3, <1>5, <2>3
  <2>7. QED
    BY <1>3, <1>4, <2>2, <2>4, <2>5, <2>6 DEF EdgesApart
<1>6. CASE populate.run > 0
  <2>1. /\ \A j \in Edges : edge_elem[j] # NULL /\ edge_elem[j] # spare
        /\ \A j, k \in Edges : edge_elem[j] = edge_elem[k] => j = k
    BY <1>6 DEF EdgesApart
  <2>2. new = spare /\ spare' = edge_elem[i] /\ populate'.run # 0
    BY <1>1, <1>3, <1>6, <2>1 DEF FreeElem
  <2>3. \A j \in Edges : edge_elem'[j] # NULL /\ edge_elem'[j] # spare'
    BY <1>1, <1>3, <2>1, <2>2
  <2>4. QED
    BY <1>3, <1>4, <2>2, <2>3 DEF EdgesApart
<1>7. QED
  BY <1>1, <1>5, <1>6

LEMMA PopulateTailStates ==
    ASSUME TypeOK, StateInv, PopulateTail
    PROVE  StateInv'
<1> DEFINE i == populate.next
           new == populate.new
<1>1. EdgesApart /\ EdgesHold /\ PointersHold /\ CopiesHold /\ UeApart /\ UeStateFromTable
  BY DEF StateInv
<1>2. UNCHANGED << ue_elem, ue_state, overtaken, pc, loc >>
  BY DEF PopulateTail, ue_vars
<1>3. new = FreeElem /\ edge_to[new]["head"] = EdgeVal(i) /\ \A j \in Edges : edge_elem[j] # new
  BY <1>1, PopulateTailDoes, FreeApart DEF EdgesApart
<1>4. EdgesApart'
  BY <1>1, PopulateTailApart
<1>5. /\ edge_to' \in [EdgeElems -> Text] /\ new \in EdgeElems /\ new # NULL
      /\ edge_to'[new]["head"] = EdgeVal(i) /\ edge_to'[new]["tail"] = EdgeVal(i)
      /\ edge_elem'[i] = new /\ \A j \in Edges : j # i => edge_elem'[j] = edge_elem[j]
      /\ \A y \in EdgeElems : y # new => edge_to'[y] = edge_to[y]
      /\ populate'.new = NULL /\ i \in Edges /\ EdgeVal(i) \in FsmStates
  BY <1>3, PopulateTailDoes, FreeElemType
<1>6. EdgesHold'
  <2> SUFFICES ASSUME NEW j \in Edges, edge_elem'[j] # NULL
               PROVE  edge_to'[edge_elem'[j]] = Whole(EdgeVal(j))
    BY DEF EdgesHold
  <2>1. CASE j = i
    <3>1. edge_to'[new] \in Text /\ \A p \in Parts : edge_to'[new][p] = EdgeVal(i)
      BY <1>5 DEF Parts
    <3>2. QED
      BY <1>5, <2>1, <3>1, TextParts
  <2>2. CASE j # i
    <3>1. edge_elem'[j] = edge_elem[j] /\ edge_elem[j] \in EdgeElems /\ edge_elem[j] # new
      BY <1>3, <1>5, <2>2 DEF TypeOK
    <3>2. QED
      BY <1>1, <1>5, <3>1 DEF EdgesHold
  <2>3. QED
    BY <2>1, <2>2
<1>7. PointersHold'
  <2> SUFFICES ASSUME NEW c \in CPUs, pc[c] \in Copying
               PROVE  /\ \A p \in Parts : FromEdge(c, edge_to[loc[c].edge], p)'
                      /\ populate'.new = loc[c].edge => loc[c].late
    BY <1>2 DEF PointersHold
  <2>1. loc[c].edge \in EdgeElems /\ loc[c].edge # NULL
    BY GetLocals DEF TypeOK, Copying
  <2>2. CASE loc[c].edge = new
    <3>1. loc[c].late
      BY <1>1, <2>2 DEF PointersHold
    <3>2. \A p \in Parts : edge_to'[new][p] \in FsmStates
      BY <1>5 DEF Parts
    <3>3. QED
      BY <1>2, <2>2, <3>1, <3>2 DEF FromEdge
  <2>3. CASE loc[c].edge # new
    <3>1. edge_to'[loc[c].edge] = edge_to[loc[c].edge]
      BY <1>5, <2>1, <2>3
    <3>2. \A p \in Parts : FromEdge(c, edge_to[loc[c].edge], p)
      BY <1>1 DEF PointersHold
    <3>3. QED
      BY <1>2, <1>5, <2>1, <3>1, <3>2 DEF FromEdge
  <2>4. QED
    BY <2>2, <2>3
<1>8. CopiesHold' /\ UeApart' /\ UeStateFromTable'
  BY <1>1, <1>2 DEF CopiesHold, FromEdge, UeApart, UeStateFromTable
<1>9. QED
  BY <1>4, <1>6, <1>7, <1>8 DEF StateInv

\* A step of one CPU leaves sm_edges alone, and what the others are copying.
LEMMA CopyFrame ==
    ASSUME TypeOK, StateInv, NEW c \in CPUs, OnlyCpu(c), UNCHANGED fsm_vars,
           pc'[c] \in Copying => /\ \A p \in Parts : FromEdge(c, edge_to[loc[c].edge], p)'
                                 /\ populate.new = loc'[c].edge => loc'[c].late,
           \A p \in Parts : pc'[c] \in Copied(p) => FromEdge(c, loc[c].name, p)'
    PROVE  EdgesApart' /\ EdgesHold' /\ PointersHold' /\ CopiesHold'
<1>1. EdgesApart /\ EdgesHold /\ PointersHold /\ CopiesHold
  BY DEF StateInv
<1>2. UNCHANGED << edge_elem, edge_to, spare, populate >> /\ UNCHANGED FreeElem
  BY DEF fsm_vars, FreeElem
<1>3. EdgesApart' /\ EdgesHold'
  BY <1>1, <1>2 DEF EdgesApart, EdgesHold
<1>4. PointersHold'
  <2> SUFFICES ASSUME NEW d \in CPUs, pc'[d] \in Copying
               PROVE  /\ \A p \in Parts : FromEdge(d, edge_to[loc[d].edge], p)'
                      /\ populate'.new = loc'[d].edge => loc'[d].late
    BY DEF PointersHold
  <2>1. CASE d = c
    BY <1>2, <2>1
  <2>2. CASE d # c
    <3>1. pc'[d] = pc[d] /\ loc'[d] = loc[d]
      BY <2>2 DEF OnlyCpu
    <3>2. QED
      BY <1>1, <1>2, <3>1 DEF PointersHold, FromEdge
  <2>3. QED
    BY <2>1, <2>2
<1>5. CopiesHold'
  <2> SUFFICES ASSUME NEW d \in CPUs, NEW p \in Parts, pc'[d] \in Copied(p)
               PROVE  FromEdge(d, loc[d].name, p)'
    BY DEF CopiesHold
  <2>1. CASE d = c
    BY <2>1
  <2>2. CASE d # c
    <3>1. pc'[d] = pc[d] /\ loc'[d] = loc[d]
      BY <2>2 DEF OnlyCpu
    <3>2. QED
      BY <1>1, <3>1 DEF CopiesHold, FromEdge
  <2>3. QED
    BY <2>1, <2>2
<1>6. QED
  BY <1>3, <1>4, <1>5

\* ... and a step that is no link leaves ue_state_map alone.
LEMMA UeFrame ==
    ASSUME TypeOK, StateInv, NEW c \in CPUs, OnlyCpu(c), UNCHANGED ue_vars, pc'[c] # "ue_link"
    PROVE  UeApart' /\ UeStateFromTable'
<1>1. UeApart /\ UeStateFromTable
  BY DEF StateInv
<1>2. UNCHANGED << ue_elem, ue_state, overtaken >>
  BY DEF ue_vars
<1>3. \A d \in CPUs : pc'[d] = "ue_link" => d # c /\ pc[d] = "ue_link" /\ loc'[d] = loc[d]
  BY DEF OnlyCpu
<1>4. UeApart'
  BY <1>1, <1>2, <1>3 DEF UeApart
<1>5. UeStateFromTable'
  BY <1>1, <1>2 DEF UeStateFromTable
<1>6. QED
  BY <1>4, <1>5

LEMMA UeFillStates ==
    ASSUME TypeOK, StateInv, NEW c \in CPUs, UeFill(c)
    PROVE  StateInv'
<1>1. PICK x \in UeElems :
        /\ ~Filling(x) /\ \A s \in Sources : ue_elem[s] # x
        /\ OnlyCpu(c) /\ pc[c] = "ue_fill" /\ pc'[c] = "ue_link"
        /\ loc'[c].src = loc[c].src /\ loc'[c].late = loc[c].late
        /\ loc'[c].name = loc[c].name /\ loc'[c].new = x
        /\ ue_state' \in [UeElems -> Text] /\ ue_state'[x]["head"] = loc[c].name["head"]
        /\ \A y \in UeElems : y # x => ue_state'[y] = ue_state[y]
  BY UeFillDoes
<1>2. /\ CopiesHold /\ UeApart /\ UeStateFromTable
      /\ UNCHANGED fsm_vars /\ UNCHANGED << ue_elem, overtaken >>
  BY DEF StateInv, UeFill
<1>3. \A p \in Parts : FromEdge(c, loc[c].name, p)'
  <2>1. \A p \in Parts : FromEdge(c, loc[c].name, p)
    BY <1>1, <1>2 DEF CopiesHold, Copied
  <2>2. QED
    BY <1>1, <2>1 DEF FromEdge
<1>4. EdgesApart' /\ EdgesHold' /\ PointersHold' /\ CopiesHold'
  BY <1>1, <1>2, <1>3, CopyFrame DEF Copying
<1>5. \A d \in CPUs : d # c => pc'[d] = pc[d] /\ loc'[d] = loc[d]
  BY <1>1 DEF OnlyCpu
<1>6. ASSUME NEW d \in CPUs, d # c, pc[d] = "ue_link"
      PROVE  loc[d].new # x /\ loc[d].new \in UeElems
  BY <1>1, <1>6, GetLocals DEF Filling, TypeOK
<1>7. UeApart'
  <2> SUFFICES ASSUME NEW d \in CPUs, pc'[d] = "ue_link"
               PROVE  /\ \A s \in Sources : ue_elem[s] # loc'[d].new
                      /\ \A b \in CPUs : pc'[b] = "ue_link" /\ loc'[b].new = loc'[d].new => b = d
                      /\ ue_state'[loc'[d].new]["head"] = loc'[d].name["head"]
    BY <1>2 DEF UeApart
  <2>1. CASE d = c
    BY <1>1, <1>5, <1>6, <2>1
  <2>2. CASE d # c
    BY <1>1, <1>2, <1>5, <1>6, <2>2 DEF UeApart
  <2>3. QED
    BY <2>1, <2>2
<1>8. UeStateFromTable'
  <2> SUFFICES ASSUME NEW s \in Sources, ue_elem[s] # NULL
               PROVE  ue_state'[ue_elem[s]] = ue_state[ue_elem[s]]
    BY <1>2 DEF UeStateFromTable
  <2>1. ue_elem[s] \in UeElems /\ ue_elem[s] # x
    BY <1>1 DEF TypeOK
  <2>2. QED
    BY <1>1, <2>1
<1>9. QED
  BY <1>4, <1>7, <1>8 DEF StateInv

LEMMA UeLinkStates ==
    ASSUME TypeOK, StateInv, NEW c \in CPUs, UeLink(c)
    PROVE  StateInv'
<1> DEFINE x == loc[c].new
           src == loc[c].src
<1>1. /\ CopiesHold /\ UeApart /\ UeStateFromTable /\ UNCHANGED fsm_vars
  BY DEF StateInv, UeLink
<1>2. /\ OnlyCpu(c) /\ pc[c] = "ue_link" /\ pc'[c] = "rate_lookup"
      /\ x \in UeElems /\ src \in Sources /\ x # NULL
      /\ \A s \in Sources : ue_elem'[s] = IF s = src THEN x ELSE ue_elem[s]
      /\ overtaken'[src] = loc[c].late
      /\ \A s \in Sources : s # src => overtaken'[s] = overtaken[s]
      /\ ue_state'[x] \in Text
      /\ ue_state'[x]["head"] = ue_state[x]["head"] /\ ue_state'[x]["tail"] = loc[c].name["tail"]
      /\ \A y \in UeElems : y # x => ue_state'[y] = ue_state[y]
  BY UeLinkDoes, BoundsNat
<1>3. EdgesApart' /\ EdgesHold' /\ PointersHold' /\ CopiesHold'
  BY <1>1, <1>2, CopyFrame DEF Copying, Copied
<1>4. /\ \A s \in Sources : ue_elem[s] # x
      /\ \A d \in CPUs : pc[d] = "ue_link" /\ loc[d].new = x => d = c
      /\ ue_state[x]["head"] = loc[c].name["head"]
  BY <1>1, <1>2 DEF UeApart
<1>5. ASSUME NEW d \in CPUs, pc'[d] = "ue_link"
      PROVE  d # c /\ pc[d] = "ue_link" /\ loc'[d] = loc[d] /\ loc[d].new # x /\ loc[d].new \in UeElems
  <2>1. d # c /\ pc[d] = "ue_link" /\ loc'[d] = loc[d]
    BY <1>2, <1>5 DEF OnlyCpu
  <2>2. QED
    BY <1>4, <2>1, GetLocals DEF TypeOK
<1>6. UeApart'
  <2>1. \A s, u \in Sources : ue_elem'[s] = ue_elem'[u] /\ ue_elem'[s] # NULL => s = u
    BY <1>1, <1>2, <1>4 DEF UeApart
  <2>2. ASSUME NEW d \in CPUs, pc'[d] = "ue_link"
        PROVE  /\ \A s \in Sources : ue_elem'[s] # loc'[d].new
               /\ \A b \in CPUs : pc'[b] = "ue_link" /\ loc'[b].new = loc'[d].new => b = d
               /\ ue_state'[loc'[d].new]["head"] = loc'[d].name["head"]
    BY <1>1, <1>2, <1>5, <2>2 DEF UeApart
  <2>3. QED
    BY <2>1, <2>2 DEF UeApart
<1>7. \A p \in Parts : ue_state'[x][p] = loc[c].name[p] /\ FromEdge(c, loc[c].name, p)
  BY <1>1, <1>2, <1>4 DEF CopiesHold, Copied, Parts
<1>8. UeStateFromTable'
  <2> SUFFICES ASSUME NEW s \in Sources, ue_elem'[s] # NULL
               PROVE  /\ ~overtaken'[s] => ue_state'[ue_elem'[s]] = Whole("REG_RECEIVED")
                      /\ \A p \in Parts : ue_state'[ue_elem'[s]][p] \in FsmStates
    BY DEF UeStateFromTable
  <2>1. CASE s = src
    BY <1>2, <1>7, <2>1, TextParts DEF FromEdge
  <2>2. CASE s # src
    <3>1. ue_elem'[s] = ue_elem[s] /\ ue_elem[s] \in UeElems /\ ue_elem[s] # x
      BY <1>2, <1>4, <2>2 DEF TypeOK
    <3>2. QED
      BY <1>1, <1>2, <2>2, <3>1 DEF UeStateFromTable
  <2>3. QED
    BY <2>1, <2>2
<1>9. QED
  BY <1>3, <1>6, <1>8 DEF StateInv

\* Where the copy out of the edge starts, and what it copies.
LEMMA CopySteps ==
    ASSUME TypeOK, StateInv, NEW c \in CPUs, EdgeLookup(c) \/ ToHead(c) \/ ToTail(c)
    PROVE  EdgesApart' /\ EdgesHold' /\ PointersHold' /\ CopiesHold'
<1>1. /\ EdgesApart /\ EdgesHold /\ PointersHold /\ CopiesHold
      /\ UNCHANGED << edge_elem, edge_to, spare, populate >> /\ UNCHANGED fsm_vars
  BY DEF StateInv, EdgeLookup, ToHead, ToTail, fsm_vars
<1>2. CASE EdgeLookup(c)
  <2>1. OnlyCpu(c) /\ pc'[c] \in {"flag", "to_head"}
    BY <1>2, EdgeLookupDoes
  <2>2. ASSUME pc'[c] \in Copying
        PROVE  /\ \A p \in Parts : FromEdge(c, edge_to[loc[c].edge], p)'
               /\ populate.new = loc'[c].edge => loc'[c].late
    <3>1. PICK i \in Edges : /\ edge_elem[i] # NULL /\ loc'[c].edge = edge_elem[i]
                             /\ EdgeVal(i) = "REG_RECEIVED"
      BY <1>2, <2>1, <2>2, EdgeLookupDoes DEF Copying
    <3>2. edge_to[edge_elem[i]] = Whole("REG_RECEIVED") /\ "REG_RECEIVED" \in FsmStates
      BY <1>1, <3>1 DEF EdgesHold, FsmStates
    <3>3. populate.new # edge_elem[i]
      BY <1>1, <3>1, FreeApart DEF EdgesApart
    <3>4. \A p \in Parts : edge_to'[loc'[c].edge][p] = "REG_RECEIVED"
      BY <1>1, <3>1, <3>2 DEF Whole
    <3>5. QED
      BY <3>1, <3>2, <3>3, <3>4 DEF FromEdge
  <2>3. \A p \in Parts : pc'[c] \notin Copied(p)
    BY <2>1 DEF Copied
  <2>4. QED
    BY <1>1, <2>1, <2>2, <2>3, CopyFrame
<1>3. CASE ToHead(c)
  <2>1. /\ OnlyCpu(c) /\ pc[c] = "to_head" /\ pc'[c] = "to_tail"
        /\ loc'[c].edge = loc[c].edge /\ loc'[c].late = loc[c].late
        /\ loc'[c].name["head"] = edge_to[loc[c].edge]["head"]
    BY <1>3, ToHeadDoes
  <2>2. /\ \A p \in Parts : FromEdge(c, edge_to[loc[c].edge], p)
        /\ populate.new = loc[c].edge => loc[c].late
    BY <1>1, <2>1 DEF PointersHold, Copying
  <2>3. /\ \A p \in Parts : FromEdge(c, edge_to[loc[c].edge], p)'
        /\ populate.new = loc'[c].edge => loc'[c].late
    BY <1>1, <2>1, <2>2 DEF FromEdge
  <2>4. \A p \in Parts : pc'[c] \in Copied(p) => FromEdge(c, loc[c].name, p)'
    BY <2>1, <2>2 DEF FromEdge, Copied, Parts
  <2>5. QED
    BY <1>1, <2>1, <2>3, <2>4, CopyFrame
<1>4. CASE ToTail(c)
  <2>1. /\ OnlyCpu(c) /\ pc[c] = "to_tail" /\ pc'[c] = "ue_fill" /\ loc'[c].late = loc[c].late
        /\ loc'[c].name["head"] = loc[c].name["head"]
        /\ loc'[c].name["tail"] = edge_to[loc[c].edge]["tail"]
    BY <1>4, ToTailDoes
  <2>2. /\ \A p \in Parts : FromEdge(c, edge_to[loc[c].edge], p)
        /\ FromEdge(c, loc[c].name, "head")
    BY <1>1, <2>1 DEF PointersHold, CopiesHold, Copying, Copied, Parts
  <2>3. \A p \in Parts : FromEdge(c, loc[c].name, p)'
    BY <2>1, <2>2 DEF FromEdge, Parts
  <2>4. QED
    BY <1>1, <2>1, <2>3, CopyFrame DEF Copying
<1>5. QED
  BY <1>2, <1>3, <1>4

LEMMA StateStep ==
    ASSUME TypeOK, StateInv, [Next]_vars
    PROVE  StateInv'
<1>1. CASE PopulateHead
  BY <1>1, PopulateHeadStates
<1>2. CASE PopulateTail
  BY <1>2, PopulateTailStates
<1>3. CASE Tick \/ (\E src \in Sources : Age(src)) \/ UNCHANGED vars
  <2>1. UNCHANGED << fsm_vars, ue_vars, pc, loc >>
    BY <1>3 DEF Tick, Age, vars
  <2>2. QED
    BY <2>1 DEF StateInv, EdgesApart, FreeElem, EdgesHold, PointersHold, CopiesHold, FromEdge,
                UeApart, UeStateFromTable, fsm_vars, ue_vars
<1>4. CASE \E src \in Sources : AgeUe(src)
  <2>1. PICK src \in Sources : AgeUe(src)
    BY <1>4
  <2>2. UNCHANGED << edge_elem, edge_to, spare, populate, ue_state, overtaken, pc, loc >>
    BY <2>1 DEF AgeUe, fsm_vars
  <2>3. \A s \in Sources : ue_elem'[s] = IF s = src THEN NULL ELSE ue_elem[s]
    BY <2>1 DEF AgeUe, TypeOK
  <2>4. \A c \in CPUs : pc[c] = "ue_link" => loc[c].new # NULL
    BY DEF TypeOK
  <2>5. UeApart'
    BY <2>2, <2>3, <2>4 DEF StateInv, UeApart
  <2>6. UeStateFromTable'
    BY <2>2, <2>3 DEF StateInv, UeStateFromTable
  <2>7. EdgesApart' /\ EdgesHold' /\ PointersHold' /\ CopiesHold'
    BY <2>2 DEF StateInv, EdgesApart, FreeElem, EdgesHold, PointersHold, CopiesHold, FromEdge
  <2>8. QED
    BY <2>5, <2>6, <2>7 DEF StateInv
<1>5. ASSUME NEW c \in CPUs, UeFill(c) \/ UeLink(c)
      PROVE  StateInv'
  BY <1>5, UeFillStates, UeLinkStates
<1>6. ASSUME NEW c \in CPUs, EdgeLookup(c) \/ ToHead(c) \/ ToTail(c)
      PROVE  StateInv'
  <2>1. OnlyCpu(c) /\ pc'[c] # "ue_link"
    BY <1>6, EdgeLookupDoes, ToHeadDoes, ToTailDoes
  <2>2. UNCHANGED ue_vars
    BY <1>6 DEF EdgeLookup, ToHead, ToTail
  <2>3. QED
    BY <1>6, <2>1, <2>2, CopySteps, UeFrame DEF StateInv
<1>7. ASSUME NEW c \in CPUs, Program(c), ~UeFill(c), ~UeLink(c),
             ~EdgeLookup(c), ~ToHead(c), ~ToTail(c)
      PROVE  StateInv'
  <2>1. UNCHANGED fsm_vars /\ UNCHANGED ue_vars
    BY <1>7 DEF Program, Receive, UeLookup, FromHead, FromTail, Flag, RateLookup, RateInit,
                WindowCheck, ResetStart, ResetCount, CountLoad, CountStore, Pass, Drop
  <2>2. OnlyCpu(c) /\ pc'[c] \notin {"to_head", "to_tail", "ue_fill", "ue_link"}
    BY <1>7, ReceiveDoes, UeLookupDoes, FromHeadDoes, FromTailDoes, FlagDoes, RateLookupDoes,
       RateInitDoes, WindowCheckDoes, ResetStartDoes, ResetCountDoes, CountLoadDoes,
       CountStoreDoes, VerdictDoes DEF Program
  <2>3. EdgesApart' /\ EdgesHold' /\ PointersHold' /\ CopiesHold'
    BY <2>1, <2>2, CopyFrame DEF Copying, Copied
  <2>4. UeApart' /\ UeStateFromTable'
    BY <2>1, <2>2, UeFrame
  <2>5. QED
    BY <2>3, <2>4 DEF StateInv
<1>8. QED
  BY <1>1, <1>2, <1>3, <1>4, <1>5, <1>6, <1>7 DEF Next

-----------------------------------------------------------------------------
(***************************************************************************)
(* The theorems.                                                           *)
(***************************************************************************)
\* The inductive invariant of amf_xdp_enforce() on several CPUs.
THEOREM SmpInvariant == Spec => []SmpInv
<1>1. Init => SmpInv
  <2> SUFFICES ASSUME Init
               PROVE  SmpInv
    OBVIOUS
  <2>1. TypeOK
    <3>1. Idle \in Locals /\ 1 \in Edges /\ 0 \in EdgeElems /\ 0 \in 0..MaxTime
      BY BoundsNat DEF Idle, Locals, Edges, EdgeElems, Whole, Text
    <3>7. Whole(NULL) \in Text
      BY DEF Whole, Text
    <3>2. FsmTypes
      BY <3>1, <3>7 DEF Init, FsmTypes
    <3>8. UeTypes
      BY <3>7 DEF Init, UeTypes
    <3>3. RateTypes
      BY <3>1 DEF Init, RateTypes, RateEntries, RateEntry
    <3>4. LogTypes
      BY <3>1 DEF Init, LogTypes
    <3>5. CpuTypes
      BY <3>1 DEF Init, CpuTypes, Steps, Holding, InFlight
    <3>6. QED
      BY <3>2, <3>3, <3>4, <3>5, <3>8, TypeGroups
  <2>2. EveryPacketCounted
    <3>1. InFlight = {}
      BY DEF Init, InFlight
    <3>2. Cardinality(InFlight) = 0
      BY <3>1, FS_EmptySet
    <3>3. rx = 0 /\ amf_xdp_stats["pass"] = 0 /\ amf_xdp_stats["drop"] = 0
      BY DEF Init, Stats
    <3>4. QED
      BY <3>2, <3>3 DEF EveryPacketCounted
  <2>3. RateInv
    <3>1. ASSUME NEW s \in Sources PROVE Counted(s) = 0 /\ Held(s) = {} /\ drops[s] = 0
      <4>1. Pending(s) = {} /\ Len(arrived[s]) = 0 /\ drops[s] = 0
        BY DEF Init, Pending, Uncounted
      <4>2. Held(s) = {}
        BY BoundsNat DEF Init, Held, Holding
      <4>3. Cardinality(Pending(s)) = 0
        BY <4>1, FS_EmptySet
      <4>4. QED
        BY <4>1, <4>2, <4>3 DEF Counted
    <3>2. OneOwner /\ CountsBehind
      BY <3>1 DEF OneOwner, CountsBehind
    <3>3. StoresBehind /\ DropsExceed
      BY DEF Init, StoresBehind, DropsExceed
    <3>4. QuietSourceNeverDropped /\ \A s \in Sources : Counted(s) >= 0
      BY <3>1 DEF QuietSourceNeverDropped
    <3>5. QED
      BY <3>2, <3>3, <3>4 DEF RateInv
  <2>4. StateInv
    <3>1. \A i \in Edges : i \in Nat /\ i >= 1
      BY BoundsNat DEF Edges
    <3>2. 0 # NULL
      BY BoundsNat
    <3>3. EdgesApart
      BY <3>1, <3>2 DEF Init, EdgesApart
    <3>4. QED
      BY <3>3 DEF Init, StateInv, EdgesHold, PointersHold, CopiesHold, Copying, Copied, UeApart,
                  UeStateFromTable
  <2>5. QED
    BY <2>1, <2>2, <2>3, <2>4 DEF SmpInv
<1>2. SmpInv /\ [Next]_vars => SmpInv'
  BY TypeStep, CountedStep, RateStep, StateStep DEF SmpInv
<1>3. QED
  BY <1>1, <1>2, PTL DEF Spec

\* bump_stat() is atomic: the counters lose no packet, whatever runs at once.
THEOREM NoPacketUncounted == Spec => []EveryPacketCounted
<1>1. SmpInv => EveryPacketCounted
  BY DEF SmpInv
<1>2. QED
  BY <1>1, SmpInvariant, PTL

\* ue_state_set(src_ip, edge->to, now): what is stored through a pointer into
\* sm_edges is the state the table gives, unless the element was refilled under
\* the copy, and then made of states of the table all the same.
THEOREM StatesFromTable == Spec => []UeStateFromTable
<1>1. SmpInv => UeStateFromTable
  BY DEF SmpInv, StateInv
<1>2. QED
  BY <1>1, SmpInvariant, PTL

\* rate_limited() on any number of CPUs: the unlocked counter never runs ahead of
\* the messages, so that a source within the limit is not dropped.
THEOREM QuietSources == Spec => []QuietSourceNeverDropped
<1>1. SmpInv => QuietSourceNeverDropped
  BY DEF SmpInv, RateInv
<1>2. QED
  BY <1>1, SmpInvariant, PTL

=============================================================================
