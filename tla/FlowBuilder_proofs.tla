-------------------------- MODULE FlowBuilder_proofs ---------------------------
(***************************************************************************)
(* What holds of FlowBuilder for flows of any size and every sequence of   *)
(* edits, and so of what the engine works out of a flow (FlowAnalysis).    *)
(*                                                                         *)
(* A flow that was built is a graph in layers: every edge leads to a later *)
(* rank, and all ways from a node come first to one and the same join, as  *)
(* the branches of a condition do.  The proofs show of the bare graph what *)
(* an edit of that kind keeps of the layers; then that each operation      *)
(* writes such an edit, in the links, the parents and the branches alike.  *)
(***************************************************************************)
EXTENDS FlowBuilder, FiniteSetTheorems, WellFoundedInduction, SequenceTheorems, TLAPS

--------------------------------------------------------------------------------
(* Graphs in layers.                                                       *)

(* A graph in layers: every edge leads to a later rank, and all ways from  *)
(* a node come first to one and the same node of S, its join.              *)
Layers(next, S, rank, J) ==
  LET D == DOMAIN next IN
  /\ S \subseteq D
  /\ rank \in [D -> Nat] /\ J \in [D -> S]
  /\ \A n \in S : J[n] = n
  /\ \A n \in D \ S : rank[n] < rank[J[n]]
  /\ \A n \in D : \A m \in next[n] :
       m \in D /\ rank[n] < rank[m] /\ (n \notin S => J[m] = J[n])
  /\ \A n \in D : \A m, l \in next[n] : J[m] = J[l]

Layered(next, S) == \E rank, J : Layers(next, S, rank, J)

--------------------------------------------------------------------------------
(* What may be done to such a graph.                                       *)

(* A node is added between some of the nodes and one that each of them may *)
(* lead to.                                                                *)
Adds(next, S, rank, J, x, t, P, next2) ==
  /\ x \notin DOMAIN next /\ t \in DOMAIN next /\ P \subseteq DOMAIN next
  /\ \A n \in P : rank[n] < rank[t] /\ (n \notin S => J[n] = J[t]) /\ \A m \in next[n] : J[m] = J[t]
  /\ DOMAIN next2 = DOMAIN next \cup {x} /\ next2[x] = {t}
  /\ \A n \in DOMAIN next : next2[n] \subseteq next[n] \cup (IF n \in P THEN {x} ELSE {})

LEMMA AddedNode ==
  ASSUME NEW next, NEW S, NEW rank, NEW J, Layers(next, S, rank, J),
         NEW x, NEW t, NEW P, NEW next2, Adds(next, S, rank, J, x, t, P, next2)
  PROVE  Layered(next2, S)
  <1> USE DEF Adds
  <1> DEFINE D == DOMAIN next
             rank2 == [n \in D \cup {x} |-> IF n = x THEN 2 * rank[t] ELSE 2 * rank[n] + 1]
             J2    == [n \in D \cup {x} |-> IF n = x THEN J[t] ELSE J[n]]
  <1>1. S \subseteq D /\ J[t] \in S /\ rank[t] \in Nat /\ rank[J[t]] \in Nat /\ rank[t] <= rank[J[t]]
    BY DEF Layers
  <1>2. rank2 \in [D \cup {x} -> Nat] /\ J2 \in [D \cup {x} -> S]
    BY <1>1 DEF Layers
  <1>3. \A n \in S : J2[n] = n
    BY <1>1 DEF Layers
  <1>4. \A n \in (D \cup {x}) \ S : rank2[n] < rank2[J2[n]]
    <2> TAKE n \in (D \cup {x}) \ S
    <2>1. CASE n = x
      BY <1>1, <2>1 DEF Layers
    <2>2. CASE n # x
      BY <1>1, <2>2 DEF Layers
    <2> QED BY <2>1, <2>2
  <1>5. ASSUME NEW n \in D \cup {x}, NEW m \in next2[n]
        PROVE  m \in D \cup {x} /\ rank2[n] < rank2[m] /\ (n \notin S => J2[m] = J2[n])
    <2>1. CASE n = x
      BY <1>1, <1>5, <2>1 DEF Layers
    <2>2. CASE n # x /\ m = x
      <3>1. n \in P
        BY <1>5, <2>2 DEF Layers
      <3> QED BY <1>1, <2>2, <3>1 DEF Layers
    <2>3. CASE n # x /\ m # x
      <3>1. n \in D /\ m \in next[n]
        BY <1>5, <2>3
      <3> QED BY <1>1, <2>3, <3>1 DEF Layers
    <2> QED BY <2>1, <2>2, <2>3
  <1>6. ASSUME NEW n \in D \cup {x}, NEW m \in next2[n], NEW l \in next2[n]
        PROVE  J2[m] = J2[l]
    <2>1. CASE n = x
      BY <1>6, <2>1
    <2>2. CASE n # x /\ n \in P
      <3>1. \A k \in next2[n] : J2[k] = J[t]
        BY <1>1, <2>2 DEF Layers
      <3> QED BY <1>6, <3>1
    <2>3. CASE n # x /\ n \notin P
      BY <1>1, <1>6, <2>3 DEF Layers
    <2> QED BY <2>1, <2>2, <2>3
  <1> HIDE DEF rank2, J2
  <1>7. Layers(next2, S, rank2, J2)
    BY <1>1, <1>2, <1>3, <1>4, <1>5, <1>6 DEF Layers
  <1> QED BY <1>7 DEF Layered

(* A node is added before a join, and becomes a join.                      *)
AddsJoin(next, S, x, t, next2) ==
  /\ x \notin DOMAIN next /\ t \in S
  /\ DOMAIN next2 = DOMAIN next \cup {x} /\ next2[x] = {t}
  /\ \A n \in DOMAIN next :
       next2[n] = IF t \in next[n] THEN (next[n] \ {t}) \cup {x} ELSE next[n]

LEMMA AddedJoin ==
  ASSUME NEW next, NEW S, Layered(next, S), NEW x, NEW t, NEW next2, AddsJoin(next, S, x, t, next2)
  PROVE  Layered(next2, S \cup {x})
  <1> USE DEF AddsJoin
  <1>1. PICK rank, J : Layers(next, S, rank, J)
    BY DEF Layered
  <1> DEFINE D == DOMAIN next
             rank2 == [n \in D \cup {x} |-> IF n = x THEN 2 * rank[t] ELSE 2 * rank[n] + 1]
             J2    == [n \in D \cup {x} |-> IF n = x \/ (n # t /\ J[n] = t) THEN x ELSE J[n]]
  <1>2. S \subseteq D /\ t \in D /\ J[t] = t /\ rank[t] \in Nat
    BY <1>1 DEF Layers
  <1>3. rank2 \in [D \cup {x} -> Nat] /\ J2 \in [D \cup {x} -> S \cup {x}]
    BY <1>1, <1>2 DEF Layers
  <1>4. \A n \in S \cup {x} : J2[n] = n
    BY <1>1, <1>2 DEF Layers
  <1>5. \A n \in (D \cup {x}) \ (S \cup {x}) : rank2[n] < rank2[J2[n]]
    <2> TAKE n \in (D \cup {x}) \ (S \cup {x})
    <2>1. n \in D \ S /\ n # x /\ n # t
      BY <1>2
    <2>2. rank[n] < rank[J[n]] /\ rank[n] \in Nat /\ rank[J[n]] \in Nat /\ J[n] \in D /\ J[n] # x
      BY <1>1, <2>1 DEF Layers
    <2>3. CASE J[n] = t
      BY <1>2, <2>1, <2>2, <2>3
    <2>4. CASE J[n] # t
      BY <1>2, <2>1, <2>2, <2>4
    <2> QED BY <2>3, <2>4
  <1>6. ASSUME NEW n \in D \cup {x}, NEW m \in next2[n]
        PROVE  m \in D \cup {x} /\ rank2[n] < rank2[m] /\ (n \notin S \cup {x} => J2[m] = J2[n])
    <2>1. CASE n = x
      BY <1>2, <1>6, <2>1 DEF Layers
    <2>2. CASE n # x /\ m = x
      <3>1. n \in D /\ t \in next[n]
        BY <1>1, <1>6, <2>2 DEF Layers
      <3> QED BY <1>1, <1>2, <2>2, <3>1 DEF Layers
    <2>3. CASE n # x /\ m # x
      <3>1. n \in D /\ m \in next[n] /\ m # t
        BY <1>6, <2>3
      <3>2. m \in D /\ rank[n] \in Nat /\ rank[m] \in Nat /\ rank[n] < rank[m] /\ (n \notin S => J[m] = J[n])
        BY <1>1, <3>1 DEF Layers
      <3> QED BY <1>2, <2>3, <3>1, <3>2
    <2> QED BY <2>1, <2>2, <2>3
  <1>7. ASSUME NEW n \in D \cup {x}, NEW m \in next2[n], NEW l \in next2[n]
        PROVE  J2[m] = J2[l]
    <2>1. CASE n = x
      BY <1>7, <2>1
    <2>2. CASE n # x /\ t \in next[n]
      <3>1. \A k \in next[n] : k \in D /\ J[k] = t
        BY <1>1, <1>2, <2>2 DEF Layers
      <3>2. \A k \in next2[n] : k = x \/ (k \in next[n] /\ k # t)
        BY <2>2
      <3>3. \A k \in next2[n] : J2[k] = x
        BY <3>1, <3>2
      <3> QED BY <1>7, <3>3
    <2>3. CASE n # x /\ t \notin next[n]
      <3>1. m \in next[n] /\ l \in next[n] /\ m # t /\ l # t /\ m # x /\ l # x /\ m \in D /\ l \in D
        BY <1>1, <1>7, <2>3 DEF Layers
      <3>2. J[m] = J[l]
        BY <1>1, <1>7, <2>3, <3>1 DEF Layers
      <3> QED BY <3>1, <3>2
    <2> QED BY <2>1, <2>2, <2>3
  <1> HIDE DEF rank2, J2
  <1>8. Layers(next2, S \cup {x}, rank2, J2)
    BY <1>2, <1>3, <1>4, <1>5, <1>6, <1>7 DEF Layers
  <1> QED BY <1>8 DEF Layered

(* A join that is none any more: what it joined goes on to the next one.   *)
LEMMA RemovedJoin ==
  ASSUME NEW next, NEW S, NEW rank, NEW J, Layers(next, S, rank, J),
         NEW z \in S, NEW c \in next[z]
  PROVE  /\ J[c] \in S \ {z}
         /\ Layers(next, S \ {z}, rank, [n \in DOMAIN next |-> IF J[n] = z THEN J[c] ELSE J[n]])
  <1> DEFINE D  == DOMAIN next
             J2 == [n \in D |-> IF J[n] = z THEN J[c] ELSE J[n]]
  <1>1. /\ S \subseteq D /\ z \in D /\ J[z] = z /\ c \in D /\ J[c] \in S /\ J[c] \in D
        /\ rank[z] \in Nat /\ rank[c] \in Nat /\ rank[J[c]] \in Nat
        /\ rank[z] < rank[c] /\ rank[c] <= rank[J[c]]
    BY DEF Layers
  <1>2. J[c] # z
    BY <1>1
  <1>3. J2 \in [D -> S \ {z}]
    BY <1>1, <1>2 DEF Layers
  <1>4. \A n \in S \ {z} : J2[n] = n
    BY <1>1 DEF Layers
  <1>5. \A n \in D \ (S \ {z}) : rank[n] < rank[J2[n]]
    <2> TAKE n \in D \ (S \ {z})
    <2>1. CASE n = z
      BY <1>1, <2>1
    <2>2. CASE n # z
      <3>1. rank[n] < rank[J[n]] /\ rank[n] \in Nat /\ rank[J[n]] \in Nat
        BY <1>1, <2>2 DEF Layers
      <3> QED BY <1>1, <3>1
    <2> QED BY <2>1, <2>2
  <1>6. ASSUME NEW n \in D, NEW m \in next[n]
        PROVE  m \in D /\ rank[n] < rank[m] /\ (n \notin S \ {z} => J2[m] = J2[n])
    <2>1. m \in D /\ rank[n] < rank[m] /\ (n \notin S => J[m] = J[n])
      BY <1>6 DEF Layers
    <2>2. CASE n = z
      <3>1. J[m] = J[c]
        BY <1>6, <2>2 DEF Layers
      <3> QED BY <1>1, <1>2, <2>1, <2>2, <3>1
    <2> QED BY <1>1, <2>1, <2>2
  <1>7. \A n \in D : \A m, l \in next[n] : J2[m] = J2[l]
    BY <1>6 DEF Layers
  <1> HIDE DEF J2
  <1>8. Layers(next, S \ {z}, rank, J2)
    BY <1>1, <1>3, <1>4, <1>5, <1>6, <1>7 DEF Layers
  <1> QED BY <1>1, <1>2, <1>8 DEF J2

LEMMA FewerJoins ==
  ASSUME NEW next, NEW S, Layered(next, S), NEW z \in S, next[z] # {}
  PROVE  Layered(next, S \ {z})
  <1>1. PICK rank, J : Layers(next, S, rank, J)
    BY DEF Layered
  <1>2. PICK c \in next[z] : TRUE
    OBVIOUS
  <1>3. Layers(next, S \ {z}, rank, [n \in DOMAIN next |-> IF J[n] = z THEN J[c] ELSE J[n]])
    BY <1>1, <1>2, RemovedJoin
  <1> QED BY <1>3 DEF Layered

(* Nodes are taken out, and some that remain lead further on.              *)
LeadsTo(next, S, rank, J, n, m) ==
  /\ next[n] # {}
  /\ rank[n] < rank[m]
  /\ n \notin S => J[m] = J[n]
  /\ \A l \in next[n] : J[l] = J[m]

Rewires(next, S, rank, J, D2, next2) ==
  /\ D2 \subseteq DOMAIN next /\ DOMAIN next2 = D2
  /\ \A n \in D2 : J[n] \in D2
  /\ \A n \in D2 : \A m \in next2[n] :
       m \in D2 /\ (m \in next[n] \/ LeadsTo(next, S, rank, J, n, m))

LEMMA Rewired ==
  ASSUME NEW next, NEW S, NEW rank, NEW J, Layers(next, S, rank, J),
         NEW D2, NEW next2, Rewires(next, S, rank, J, D2, next2)
  PROVE  Layered(next2, S \cap D2)
  <1> USE DEF Rewires, LeadsTo
  <1> DEFINE D == DOMAIN next
             rank2 == [n \in D2 |-> rank[n]]
             J2    == [n \in D2 |-> J[n]]
  <1>1. S \subseteq D /\ rank2 \in [D2 -> Nat] /\ J2 \in [D2 -> S \cap D2]
    BY DEF Layers
  <1>2. \A n \in S \cap D2 : J2[n] = n
    BY DEF Layers
  <1>3. \A n \in D2 \ (S \cap D2) : rank2[n] < rank2[J2[n]]
    BY DEF Layers
  <1>4. ASSUME NEW n \in D2, NEW m \in next2[n]
        PROVE  m \in D2 /\ rank2[n] < rank2[m] /\ (n \notin S \cap D2 => J2[m] = J2[n])
    BY <1>4 DEF Layers
  <1>5. ASSUME NEW n \in D2, NEW m \in next2[n], NEW l \in next2[n]
        PROVE  J2[m] = J2[l]
    <2>1. m \in D2 /\ l \in D2
      BY <1>5
    <2>2. PICK k \in next[n] : TRUE
      BY <1>5
    <2>3. J[m] = J[k] /\ J[l] = J[k]
      BY <1>5, <2>2 DEF Layers
    <2> QED BY <2>1, <2>3
  <1> HIDE DEF rank2, J2
  <1>6. Layers(next2, S \cap D2, rank2, J2)
    BY <1>1, <1>2, <1>3, <1>4, <1>5 DEF Layers
  <1> QED BY <1>6 DEF Layered

(* r is taken out, and the nodes before it lead to c behind it.            *)
TakesOut(next, r, c, next2) ==
  /\ r \in DOMAIN next /\ next[r] = {c}
  /\ DOMAIN next2 = DOMAIN next \ {r}
  /\ \A n \in DOMAIN next \ {r} :
       next2[n] = IF r \in next[n] THEN (next[n] \ {r}) \cup {c} ELSE next[n]

(* A join is taken out, and the node behind it joins in its place.         *)
LEMMA MovedJoin ==
  ASSUME NEW next, NEW S, Layered(next, S), NEW r \in S, NEW c \in DOMAIN next \ S,
         \A n \in DOMAIN next : c \in next[n] => n = r,
         NEW next2, TakesOut(next, r, c, next2)
  PROVE  Layered(next2, (S \ {r}) \cup {c})
  <1> USE DEF TakesOut
  <1>1. PICK rank, J : Layers(next, S, rank, J)
    BY DEF Layered
  <1> DEFINE D  == DOMAIN next
             D2 == D \ {r}
             S2 == (S \ {r}) \cup {c}
             rank2 == [n \in D2 |-> rank[n]]
             J2    == [n \in D2 |-> IF n = c \/ J[n] = r THEN c ELSE J[n]]
  <1>2. /\ S \subseteq D /\ r \in D /\ J[r] = r /\ c \in D2 /\ rank[r] < rank[c]
        /\ \A n \in D : rank[n] \in Nat /\ J[n] \in S
    BY <1>1 DEF Layers
  <1>3. rank2 \in [D2 -> Nat] /\ J2 \in [D2 -> S2] /\ S2 \subseteq D2
    BY <1>2
  <1>4. \A n \in S2 : J2[n] = n
    BY <1>1, <1>2 DEF Layers
  <1>5. \A n \in D2 \ S2 : rank2[n] < rank2[J2[n]]
    <2> TAKE n \in D2 \ S2
    <2>1. n \in D \ S /\ n # c
      OBVIOUS
    <2>2. rank[n] < rank[J[n]] /\ J[n] \in D
      BY <1>1, <2>1 DEF Layers
    <2>3. CASE J[n] = r
      <3>1. rank[n] < rank[c]
        BY <1>2, <2>1, <2>2, <2>3
      <3> QED BY <1>2, <2>1, <2>3, <3>1
    <2>4. CASE J[n] # r
      BY <1>2, <2>1, <2>2, <2>4
    <2> QED BY <2>3, <2>4
  <1>6. ASSUME NEW n \in D2, NEW m \in next2[n]
        PROVE  m \in D2 /\ rank2[n] < rank2[m] /\ (n \notin S2 => J2[m] = J2[n])
    <2>1. CASE r \in next[n] /\ m = c
      <3>1. rank[n] < rank[r] /\ (n \notin S => J[n] = r)
        BY <1>1, <1>2, <2>1 DEF Layers
      <3>2. rank[n] < rank[c]
        BY <1>2, <3>1
      <3> QED BY <1>2, <2>1, <3>1, <3>2
    <2>2. CASE m \in next[n] /\ m # r /\ m # c
      <3>1. m \in D2 /\ rank[n] < rank[m] /\ (n \notin S => J[m] = J[n])
        BY <1>1, <2>2 DEF Layers
      <3> QED BY <1>2, <2>2, <3>1
    <2>3. m = c => r \in next[n]
      BY <1>6
    <2> QED BY <1>6, <2>1, <2>2, <2>3
  <1>7. ASSUME NEW n \in D2, NEW m \in next2[n], NEW l \in next2[n]
        PROVE  J2[m] = J2[l]
    <2>1. CASE r \in next[n]
      <3>1. \A k \in next[n] : k \in D /\ J[k] = r
        BY <1>1, <1>2, <2>1 DEF Layers
      <3>2. \A k \in next2[n] : k = c \/ (k \in next[n] /\ k # r)
        BY <2>1
      <3>3. \A k \in next2[n] : J2[k] = c
        BY <1>2, <3>1, <3>2
      <3> QED BY <1>7, <3>3
    <2>2. CASE r \notin next[n]
      <3>1. m \in next[n] /\ l \in next[n] /\ m # c /\ l # c
        BY <1>7, <2>2
      <3>2. J[m] = J[l] /\ m \in D2 /\ l \in D2
        BY <1>1, <2>2, <3>1 DEF Layers
      <3> QED BY <3>1, <3>2
    <2> QED BY <2>1, <2>2
  <1> HIDE DEF rank2, J2, S2
  <1>8. Layers(next2, S2, rank2, J2)
    BY <1>3, <1>4, <1>5, <1>6, <1>7 DEF Layers
  <1> QED BY <1>8 DEF Layered, S2

--------------------------------------------------------------------------------
(* The same edits, seen from the nodes before a node: where branches meet  *)
(* is where several edges come together.                                   *)

(* The nodes before a node, where branches meet, and what is kept of the   *)
(* graph: it begins at the form, ends at the end, and has layers.          *)
Preds(next, n) == {m \in DOMAIN next : n \in next[m]}

Joins(next) == {n \in DOMAIN next : Several(Preds(next, n)) \/ n = "end-node"}

Core(next) ==
  /\ {"form-node", "end-node"} \subseteq DOMAIN next
  /\ \A n \in DOMAIN next :
       /\ next[n] \subseteq DOMAIN next \ {"form-node"}
       /\ next[n] = {} <=> n = "end-node"
       /\ Preds(next, n) = {} => n = "form-node"
  /\ Layered(next, Joins(next))

(* One of several nodes replaced by a new one leaves as many.              *)
LEMMA SeveralSwap ==
  ASSUME NEW S, NEW s \in S, NEW x, x \notin S
  PROVE  Several((S \ {s}) \cup {x}) <=> Several(S)
  <1>1. ASSUME Several(S) PROVE Several((S \ {s}) \cup {x})
    <2>1. PICK a, b \in S : a # b
      BY <1>1 DEF Several
    <2>2. \E c \in S \ {s} : TRUE
      BY <2>1
    <2> QED BY <2>2 DEF Several
  <1>2. ASSUME Several((S \ {s}) \cup {x}) PROVE Several(S)
    <2>1. \E c \in S \ {s} : TRUE
      BY <1>2 DEF Several
    <2> QED BY <2>1 DEF Several
  <1> QED BY <1>1, <1>2

(* What a single node leads to.                                            *)
LEMMA EdgeFacts ==
  ASSUME NEW next, NEW S, NEW rank, NEW J, Layers(next, S, rank, J),
         NEW n \in DOMAIN next, NEW m \in next[n]
  PROVE  m \in DOMAIN next /\ m # n /\ n \notin next[m] /\ rank[n] < rank[m]
         /\ rank[n] \in Nat /\ rank[m] \in Nat
  BY DEF Layers

--------------------------------------------------------------------------------
(* A node is added between t and one, or all, of the nodes before it.      *)
Inserts(next, x, t, P, next2) ==
  /\ x \notin DOMAIN next /\ t \in DOMAIN next /\ P \subseteq Preds(next, t)
  /\ DOMAIN next2 = DOMAIN next \cup {x} /\ next2[x] = {t}
  /\ \A n \in DOMAIN next :
       next2[n] = IF n \in P THEN (next[n] \ {t}) \cup {x} ELSE next[n]

LEMMA InsertedEdges ==
  ASSUME NEW next, Core(next), NEW x, NEW t, NEW P, NEW next2, Inserts(next, x, t, P, next2)
  PROVE  /\ Preds(next2, x) = P
         /\ Preds(next2, t) = (Preds(next, t) \ P) \cup {x}
         /\ \A n \in DOMAIN next \ {t} : Preds(next2, n) = Preds(next, n)
  BY DEF Preds, Core, Inserts

(* A node put between t and nodes before it: which nodes are joins then.   *)
LEMMA InsertedJoins ==
  ASSUME NEW next, Core(next),
         NEW x, NEW t, NEW P, P # {}, ~ Several(P) \/ P = Preds(next, t),
         NEW next2, Inserts(next, x, t, P, next2)
  PROVE  Joins(next2) =
           IF Several(P) THEN (Joins(next) \cup {x}) \ ({t} \ {"end-node"}) ELSE Joins(next)
  <1>1. /\ Preds(next2, x) = P
        /\ Preds(next2, t) = (Preds(next, t) \ P) \cup {x}
        /\ \A n \in DOMAIN next \ {t} : Preds(next2, n) = Preds(next, n)
    BY InsertedEdges
  <1> USE DEF Inserts
  <1>2. x # "end-node" /\ x \notin Preds(next, t)
    BY DEF Core, Preds
  <1>3. x \in Joins(next2) <=> Several(P)
    BY <1>1, <1>2 DEF Joins
  <1>4. \A n \in DOMAIN next \ {t} : n \in Joins(next2) <=> n \in Joins(next)
    BY <1>1 DEF Joins
  <1>5. CASE Several(P)
    <2>1. Preds(next2, t) = {x}
      BY <1>1, <1>5
    <2>2. ~ Several({x})
      BY DEF Several
    <2>3. t \in Joins(next2) <=> t = "end-node"
      BY <2>1, <2>2 DEF Joins
    <2>4. t = "end-node" => t \in Joins(next)
      BY DEF Joins
    <2> QED BY <1>2, <1>3, <1>4, <1>5, <2>3, <2>4 DEF Joins
  <1>6. CASE ~ Several(P)
    <2>1. PICK s \in P : P = {s}
      BY <1>6 DEF Several
    <2>2. Several(Preds(next2, t)) <=> Several(Preds(next, t))
      BY <1>1, <1>2, <2>1, SeveralSwap
    <2>3. t \in Joins(next2) <=> t \in Joins(next)
      BY <2>2 DEF Joins
    <2> QED BY <1>3, <1>4, <1>6, <2>3 DEF Joins
  <1> QED BY <1>5, <1>6

(* ... and the graph is still in layers.                                   *)
LEMMA InsertedCore ==
  ASSUME NEW next, Core(next),
         NEW x, NEW t, NEW P, P # {}, ~ Several(P) \/ P = Preds(next, t),
         NEW next2, Inserts(next, x, t, P, next2)
  PROVE  Core(next2)
  <1>1. /\ Preds(next2, x) = P
        /\ Preds(next2, t) = (Preds(next, t) \ P) \cup {x}
        /\ \A n \in DOMAIN next \ {t} : Preds(next2, n) = Preds(next, n)
    BY InsertedEdges
  <1>2. Joins(next2) =
          IF Several(P) THEN (Joins(next) \cup {x}) \ ({t} \ {"end-node"}) ELSE Joins(next)
    BY InsertedJoins
  <1> USE DEF Inserts
  <1>3. /\ \A n \in DOMAIN next : next[n] \subseteq DOMAIN next
        /\ x # "form-node" /\ x # "end-node"
        /\ t \in next[t] => FALSE
    <2>1. PICK rank, J : Layers(next, Joins(next), rank, J)
      BY DEF Core, Layered
    <2> QED BY <2>1, EdgeFacts DEF Core
  <1>4. Layered(next2, Joins(next2))
    <2>1. CASE Several(P)
      <3>1. P = Preds(next, t) /\ t \in Joins(next)
        BY <2>1 DEF Joins
      <3>2. \A n \in DOMAIN next :
              next2[n] = IF t \in next[n] THEN (next[n] \ {t}) \cup {x} ELSE next[n]
        BY <3>1 DEF Preds
      <3>3. Layered(next2, Joins(next) \cup {x})
        BY <3>1, <3>2, AddedJoin DEF Core, AddsJoin
      <3>4. CASE t = "end-node"
        BY <1>2, <2>1, <3>3, <3>4
      <3>5. CASE t # "end-node"
        <4>1. next2[t] # {}
          BY <1>3, <3>5 DEF Core, Preds
        <4>2. Layered(next2, (Joins(next) \cup {x}) \ {t})
          BY <3>1, <3>3, <4>1, FewerJoins
        <4> QED BY <1>2, <2>1, <3>5, <4>2
      <3> QED BY <3>4, <3>5
    <2>2. CASE ~ Several(P)
      <3>1. PICK rank, J : Layers(next, Joins(next), rank, J)
        BY DEF Core, Layered
      <3>2. P \in SUBSET DOMAIN next
        BY DEF Preds
      <3>3. \A n \in P : /\ rank[n] < rank[t] /\ (n \notin Joins(next) => J[n] = J[t])
                         /\ \A m \in next[n] : J[m] = J[t]
        BY <3>1 DEF Layers, Preds
      <3>4. \A n \in DOMAIN next : next2[n] \subseteq next[n] \cup (IF n \in P THEN {x} ELSE {})
        OBVIOUS
      <3>5. Layered(next2, Joins(next))
        BY <3>1, <3>2, <3>3, <3>4, AddedNode DEF Adds
      <3> QED BY <1>2, <2>2, <3>5
    <2> QED BY <2>1, <2>2
  <1>5. {"form-node", "end-node"} \subseteq DOMAIN next2
    BY DEF Core
  <1>6. ASSUME NEW n \in DOMAIN next2
        PROVE  /\ next2[n] \subseteq DOMAIN next2 \ {"form-node"}
               /\ next2[n] = {} <=> n = "end-node"
               /\ Preds(next2, n) = {} => n = "form-node"
    <2>1. CASE n = x
      <3>1. t # "form-node"
        BY DEF Core, Preds
      <3> QED BY <1>1, <1>3, <2>1, <3>1
    <2>2. CASE n # x
      <3>1. n \in DOMAIN next
        BY <2>2
      <3>2. n \in P => n # "end-node"
        BY DEF Core, Preds
      <3>3. next2[n] \subseteq DOMAIN next2 \ {"form-node"}
        BY <1>3, <3>1 DEF Core
      <3>4. next2[n] = {} <=> n = "end-node"
        BY <3>1, <3>2 DEF Core
      <3>5. Preds(next2, n) = {} => n = "form-node"
        BY <1>1, <3>1 DEF Core
      <3> QED BY <3>3, <3>4, <3>5
    <2> QED BY <2>1, <2>2
  <1> QED BY <1>4, <1>5, <1>6 DEF Core

(* A branch is added, from k to where its other branches meet.             *)
AddsBranch(next, k, x, z, next2) ==
  /\ x \notin DOMAIN next
  /\ DOMAIN next2 = DOMAIN next \cup {x} /\ next2[x] = {z}
  /\ \A n \in DOMAIN next : next2[n] = IF n = k THEN next[n] \cup {x} ELSE next[n]

(* A branch more, with one node that leads to the join of the others.      *)
LEMMA BranchedCore ==
  ASSUME NEW next, Core(next), NEW rank, NEW J, Layers(next, Joins(next), rank, J),
         NEW k \in DOMAIN next \ {"end-node"}, NEW z \in Joins(next), \A m \in next[k] : J[m] = z,
         NEW x, NEW next2, AddsBranch(next, k, x, z, next2)
  PROVE  /\ Core(next2)
         /\ Joins(next2) = Joins(next)
         /\ Preds(next2, x) = {k}
         /\ Preds(next2, z) = Preds(next, z) \cup {x}
         /\ \A n \in DOMAIN next \ {z} : Preds(next2, n) = Preds(next, n)
  <1> USE DEF AddsBranch
  <1>1. /\ \A n \in DOMAIN next : next[n] \subseteq DOMAIN next
        /\ x # "form-node" /\ x # "end-node" /\ z \in DOMAIN next
        /\ next[k] # {}
    BY DEF Core, Joins
  <1>2. /\ Preds(next2, x) = {k}
        /\ Preds(next2, z) = Preds(next, z) \cup {x}
        /\ \A n \in DOMAIN next \ {z} : Preds(next2, n) = Preds(next, n)
    BY <1>1 DEF Preds
  <1>3. Joins(next2) = Joins(next)
    <2>1. ~ Several({k})
      BY DEF Several
    <2>2. Several(Preds(next, z)) => Several(Preds(next2, z))
      BY <1>2 DEF Several
    <2>3. x \notin Joins(next2) /\ x \notin Joins(next)
      BY <1>1, <1>2, <2>1 DEF Joins, AddsBranch
    <2>4. z \in Joins(next2) /\ z \in Joins(next)
      BY <1>1, <2>2 DEF Joins, AddsBranch
    <2>5. \A n \in DOMAIN next \ {z} : n \in Joins(next2) <=> n \in Joins(next)
      BY <1>2 DEF Joins, AddsBranch
    <2>6. Joins(next2) \subseteq DOMAIN next \cup {x} /\ Joins(next) \subseteq DOMAIN next
      BY DEF Joins, AddsBranch
    <2> QED BY <2>3, <2>4, <2>5, <2>6
  <1>4. Layered(next2, Joins(next))
    <2>1. PICK m \in next[k] : TRUE
      BY <1>1
    <2>2. /\ m \in DOMAIN next /\ rank[k] < rank[m] /\ J[m] = z
          /\ k \notin Joins(next) => J[k] = z
          /\ rank[k] \in Nat /\ rank[m] \in Nat /\ rank[z] \in Nat /\ rank[m] <= rank[z] /\ J[z] = z
      BY <1>1, <2>1 DEF Layers
    <2>3. \A n \in {k} : /\ rank[n] < rank[z] /\ (n \notin Joins(next) => J[n] = J[z])
                         /\ \A l \in next[n] : J[l] = J[z]
      BY <2>2
    <2>4. \A n \in DOMAIN next : next2[n] \subseteq next[n] \cup (IF n \in {k} THEN {x} ELSE {})
      OBVIOUS
    <2>5. {k} \in SUBSET DOMAIN next
      OBVIOUS
    <2>6. Adds(next, Joins(next), rank, J, x, z, {k}, next2)
      BY <1>1, <2>3, <2>4, <2>5 DEF Adds
    <2> QED BY <2>6, AddedNode
  <1>5. {"form-node", "end-node"} \subseteq DOMAIN next2
    BY DEF Core
  <1>6. ASSUME NEW n \in DOMAIN next2
        PROVE  /\ next2[n] \subseteq DOMAIN next2 \ {"form-node"}
               /\ next2[n] = {} <=> n = "end-node"
               /\ Preds(next2, n) = {} => n = "form-node"
    <2>1. z # "form-node"
      <3>1. PICK m \in next[k] : TRUE
        BY <1>1
      <3>2. m \in DOMAIN next /\ J[m] = z /\ m # "form-node" /\ (m \in Joins(next) => m = z)
        BY <3>1 DEF Layers, Core
      <3>3. ASSUME z = "form-node" PROVE FALSE
        <4>1. PICK a, b \in Preds(next, z) : a # b
          BY <3>3 DEF Joins, Several
        <4> QED BY <3>3, <4>1 DEF Preds, Core
      <3> QED BY <3>3
    <2>2. CASE n = x
      BY <1>1, <1>2, <2>1, <2>2
    <2>3. CASE n # x
      BY <1>1, <1>2, <2>3 DEF Core
    <2> QED BY <2>2, <2>3
  <1> QED BY <1>2, <1>3, <1>4, <1>5, <1>6 DEF Core

(* A node is taken out, and the nodes before it lead to the one behind it. *)
LEMMA DeletedCore ==
  ASSUME NEW next, Core(next), NEW r \in DOMAIN next \ {"form-node", "end-node"}, NEW c,
         Preds(next, r) \cap Preds(next, c) = {}, NEW next2, TakesOut(next, r, c, next2)
  PROVE  /\ Core(next2)
         /\ Joins(next2) = IF Several(Preds(next, r)) THEN (Joins(next) \ {r}) \cup {c} ELSE Joins(next)
         /\ Preds(next2, c) = (Preds(next, c) \ {r}) \cup Preds(next, r)
         /\ \A n \in DOMAIN next \ {r, c} : Preds(next2, n) = Preds(next, n)
  <1>1. ASSUME r \in Joins(next), c \in DOMAIN next \ Joins(next), \A n \in DOMAIN next : c \in next[n] => n = r
        PROVE  Layered(next2, (Joins(next) \ {r}) \cup {c})
    BY <1>1, MovedJoin DEF Core
  <1> USE DEF TakesOut
  <1>2. PICK rank, J : Layers(next, Joins(next), rank, J)
    BY DEF Core, Layered
  <1>3. /\ c \in DOMAIN next /\ c # r /\ r \notin next[c] /\ rank[r] < rank[c]
        /\ r \notin next[r] /\ c \notin next[c] /\ c # "form-node"
    BY <1>2, EdgeFacts DEF Core
  <1>4. /\ Preds(next2, c) = (Preds(next, c) \ {r}) \cup Preds(next, r)
        /\ \A n \in DOMAIN next \ {r, c} : Preds(next2, n) = Preds(next, n)
    BY <1>3 DEF Preds
  <1>5. r \in Preds(next, c) /\ Preds(next, r) # {}
    BY <1>3 DEF Preds, Core
  <1>6. \A n \in DOMAIN next \ {r, c} : n \in Joins(next2) <=> n \in Joins(next)
    BY <1>4 DEF Joins
  <1>7. Joins(next2) = IF Several(Preds(next, r)) THEN (Joins(next) \ {r}) \cup {c} ELSE Joins(next)
    <2>1. CASE Several(Preds(next, r))
      <3>1. Several(Preds(next2, c))
        BY <1>4, <2>1 DEF Several
      <3> QED BY <1>3, <1>6, <2>1, <3>1 DEF Joins
    <2>2. CASE ~ Several(Preds(next, r))
      <3>1. PICK p \in Preds(next, r) : Preds(next, r) = {p}
        BY <1>5, <2>2 DEF Several
      <3>2. Several(Preds(next2, c)) <=> Several(Preds(next, c))
        <4>1. p \notin Preds(next, c)
          BY <3>1
        <4> QED BY <1>4, <1>5, <3>1, <4>1, SeveralSwap
      <3> QED BY <1>3, <1>6, <2>2, <3>2 DEF Joins
    <2> QED BY <2>1, <2>2
  <1>8. Layered(next2, Joins(next2))
    <2>1. CASE ~ Several(Preds(next, r))
      <3>1. r \notin Joins(next)
        BY <2>1 DEF Joins
      <3>2. \A n \in DOMAIN next \ {r} : J[n] \in DOMAIN next \ {r}
        BY <1>2, <3>1 DEF Layers
      <3>3. J[r] = J[c]
        BY <1>2, <3>1 DEF Layers
      <3>4. \A n \in DOMAIN next \ {r} : \A m \in next2[n] :
              m \in DOMAIN next \ {r} /\ (m \in next[n] \/ LeadsTo(next, Joins(next), rank, J, n, m))
        <4> TAKE n \in DOMAIN next \ {r}
        <4> TAKE m \in next2[n]
        <4>1. CASE r \in next[n] /\ m = c
          <5>1. rank[n] < rank[r] /\ rank[n] \in Nat /\ rank[r] \in Nat /\ rank[c] \in Nat
            BY <1>2, <1>3, <4>1 DEF Layers
          <5>2. \A l \in next[n] : J[l] = J[r]
            BY <1>2, <4>1 DEF Layers
          <5>3. n \notin Joins(next) => J[r] = J[n]
            BY <1>2, <4>1 DEF Layers
          <5> QED BY <1>3, <3>3, <4>1, <5>1, <5>2, <5>3 DEF LeadsTo
        <4>2. CASE m \in next[n] /\ m # r
          BY <4>2 DEF Core
        <4> QED BY <4>1, <4>2
      <3>5. Layered(next2, Joins(next) \cap (DOMAIN next \ {r}))
        <4>1. DOMAIN next \ {r} \in SUBSET DOMAIN next
          OBVIOUS
        <4> QED BY <1>2, <3>2, <3>4, <4>1, Rewired DEF Rewires
      <3>6. Joins(next) \cap (DOMAIN next \ {r}) = Joins(next)
        BY <3>1 DEF Joins
      <3> QED BY <1>7, <2>1, <3>5, <3>6
    <2>2. CASE Several(Preds(next, r)) /\ c \in Joins(next)
      <3> DEFINE S1 == Joins(next) \ {r}
                 J1 == [n \in DOMAIN next |-> IF J[n] = r THEN J[c] ELSE J[n]]
      <3>1. r \in Joins(next) /\ c \in S1 /\ J[c] = c
        BY <1>2, <1>3, <2>2 DEF Joins, Layers
      <3>2. Layers(next, S1, rank, J1)
        BY <1>2, <3>1, RemovedJoin
      <3>3. J1[c] = c /\ J1[r] = c
        BY <1>2, <1>3, <3>1 DEF Layers
      <3> HIDE DEF J1
      <3>4. \A n \in DOMAIN next \ {r} : J1[n] \in DOMAIN next \ {r}
        BY <3>2 DEF Layers
      <3>5. \A n \in DOMAIN next \ {r} : \A m \in next2[n] :
              m \in DOMAIN next \ {r} /\ (m \in next[n] \/ LeadsTo(next, S1, rank, J1, n, m))
        <4> TAKE n \in DOMAIN next \ {r}
        <4> TAKE m \in next2[n]
        <4>1. CASE r \in next[n] /\ m = c
          <5>1. rank[n] < rank[r] /\ rank[n] \in Nat /\ rank[r] \in Nat /\ rank[c] \in Nat
            BY <1>2, <1>3, <4>1 DEF Layers
          <5>2. \A l \in next[n] : J1[l] = J1[r]
            BY <3>2, <4>1 DEF Layers
          <5>3. n \notin S1 => J1[r] = J1[n]
            BY <3>2, <4>1 DEF Layers
          <5> QED BY <1>3, <3>3, <4>1, <5>1, <5>2, <5>3 DEF LeadsTo
        <4>2. CASE m \in next[n] /\ m # r
          BY <4>2 DEF Core
        <4> QED BY <4>1, <4>2
      <3> HIDE DEF S1
      <3>6. Layered(next2, S1 \cap (DOMAIN next \ {r}))
        <4>1. DOMAIN next \ {r} \in SUBSET DOMAIN next
          OBVIOUS
        <4> QED BY <3>2, <3>4, <3>5, <4>1, Rewired DEF Rewires
      <3>7. S1 \cap (DOMAIN next \ {r}) = Joins(next2)
        BY <1>7, <2>2 DEF Joins, S1
      <3> QED BY <3>6, <3>7
    <2>3. CASE Several(Preds(next, r)) /\ c \notin Joins(next)
      <3>1. r \in Joins(next) /\ c \in DOMAIN next \ Joins(next) /\ Layered(next, Joins(next))
        BY <1>3, <2>3 DEF Joins, Core
      <3>2. \A n \in DOMAIN next : c \in next[n] => n = r
        BY <1>5, <2>3, <3>1 DEF Joins, Several, Preds
      <3> QED BY <1>1, <1>7, <2>3, <3>1, <3>2
    <2> QED BY <2>1, <2>2, <2>3
  <1>9. {"form-node", "end-node"} \subseteq DOMAIN next2
    BY DEF Core
  <1>10. ASSUME NEW n \in DOMAIN next2
         PROVE  /\ next2[n] \subseteq DOMAIN next2 \ {"form-node"}
                /\ next2[n] = {} <=> n = "end-node"
                /\ Preds(next2, n) = {} => n = "form-node"
    <2>1. n \in DOMAIN next /\ n # r
      OBVIOUS
    <2>2. next2[n] \subseteq DOMAIN next2 \ {"form-node"}
      BY <1>3, <2>1 DEF Core
    <2>3. next2[n] = {} <=> n = "end-node"
      BY <2>1 DEF Core
    <2>4. Preds(next2, n) = {} => n = "form-node"
      BY <1>4, <1>5, <2>1 DEF Core
    <2> QED BY <2>2, <2>3, <2>4
  <1> QED BY <1>4, <1>7, <1>8, <1>9, <1>10 DEF Core

--------------------------------------------------------------------------------
(* Finite sets of numbered nodes, what is reached over edges, and the      *)
(* region that goes with a node: what lies behind it up to the next joins. *)

(* Of finitely many nodes with numbers, one has the largest ...            *)
LEMMA SomeIsLast ==
  ASSUME NEW D, IsFiniteSet(D), NEW S \in SUBSET D, S # {}, NEW f, \A n \in S : f[n] \in Nat
  PROVE  \E m \in S : \A p \in S : f[p] <= f[m]
  <1> DEFINE after(n) == {p \in S : f[p] > f[n]}
             T == {after(n) : n \in S}
             R == StrictSubsetOrdering(D)
  <1>1. IsWellFoundedOn(R, SUBSET D)
    BY FS_StrictSubsetOrderingWellFounded, FS_FiniteSubsetsOfFinite
  <1>2. T \subseteq SUBSET D /\ T # {}
    OBVIOUS
  <1>3. \A A, B \in SUBSET D : A \subseteq B /\ A # B => <<A, B>> \in R
    BY DEF StrictSubsetOrdering
  <1> HIDE DEF R, T
  <1>4. PICK B \in T : \A A \in T : <<A, B>> \notin R
    BY <1>1, <1>2, WFMin
  <1>5. PICK m \in S : B = after(m)
    BY <1>4 DEF T
  <1>6. ASSUME NEW p \in S, f[p] > f[m] PROVE FALSE
    <2>1. after(p) \subseteq after(m) /\ p \in after(m) /\ p \notin after(p)
      BY <1>6
    <2>2. after(p) \in T
      BY DEF T
    <2> QED BY <1>2, <1>3, <1>4, <1>5, <2>1, <2>2
  <1> QED BY <1>6

(* ... and one the smallest.                                               *)
LEMMA SomeIsFirst ==
  ASSUME NEW D, IsFiniteSet(D), NEW S \in SUBSET D, S # {}, NEW f, \A n \in S : f[n] \in Nat
  PROVE  \E m \in S : \A p \in S : f[m] <= f[p]
  <1> DEFINE before(n) == {p \in S : f[p] < f[n]}
             T == {before(n) : n \in S}
             R == StrictSubsetOrdering(D)
  <1>1. IsWellFoundedOn(R, SUBSET D)
    BY FS_StrictSubsetOrderingWellFounded, FS_FiniteSubsetsOfFinite
  <1>2. T \subseteq SUBSET D /\ T # {}
    OBVIOUS
  <1>3. \A A, B \in SUBSET D : A \subseteq B /\ A # B => <<A, B>> \in R
    BY DEF StrictSubsetOrdering
  <1> HIDE DEF R, T
  <1>4. PICK B \in T : \A A \in T : <<A, B>> \notin R
    BY <1>1, <1>2, WFMin
  <1>5. PICK m \in S : B = before(m)
    BY <1>4 DEF T
  <1>6. ASSUME NEW p \in S, f[p] < f[m] PROVE FALSE
    <2>1. before(p) \subseteq before(m) /\ p \in before(m) /\ p \notin before(p)
      BY <1>6
    <2>2. before(p) \in T
      BY DEF T
    <2> QED BY <1>2, <1>3, <1>4, <1>5, <2>1, <2>2
  <1> QED BY <1>6

--------------------------------------------------------------------------------
(* What is reached is the smallest set that no edge leaves.                *)
LEMMA ReachBegins ==
  ASSUME NEW f, NEW S, S \subseteq DOMAIN f
  PROVE  S \subseteq Reach(f, S) /\ Reach(f, S) \subseteq DOMAIN f
  BY DEF Reach

LEMMA ReachGoesOn ==
  ASSUME NEW f, NEW S, \A k \in DOMAIN f : f[k] \subseteq DOMAIN f,
         NEW n \in Reach(f, S), NEW m \in f[n]
  PROVE  m \in Reach(f, S)
  BY DEF Reach

LEMMA ReachStays ==
  ASSUME NEW f, NEW S, NEW T, S \subseteq T, T \subseteq DOMAIN f, \A n \in T : f[n] \subseteq T
  PROVE  Reach(f, S) \subseteq T
  BY DEF Reach

(* A node that is reached and not one to begin with has one reached before.*)
LEMMA ReachComesFrom ==
  ASSUME NEW f, NEW S, \A k \in DOMAIN f : f[k] \subseteq DOMAIN f,
         S \subseteq DOMAIN f, NEW n \in Reach(f, S), n \notin S
  PROVE  \E m \in Reach(f, S) : n \in f[m]
  <1>1. SUFFICES ASSUME \A m \in Reach(f, S) : n \notin f[m] PROVE FALSE
    OBVIOUS
  <1> DEFINE T == Reach(f, S) \ {n}
  <1>2. S \subseteq T /\ T \subseteq DOMAIN f
    BY ReachBegins
  <1>3. \A m \in T : f[m] \subseteq T
    BY <1>1, ReachGoesOn
  <1>4. Reach(f, S) \subseteq T
    BY <1>2, <1>3, ReachStays
  <1> QED BY <1>4

--------------------------------------------------------------------------------
(* A node r and what lies behind it before the next join z: G has one way  *)
(* in, to r, and leads out to z only.                                      *)
Region(next, rank, J, r, z, G) ==
  /\ G \subseteq DOMAIN next /\ r \in G
  /\ z \in Joins(next) \ G
  /\ "form-node" \notin G /\ "end-node" \notin G
  /\ \A m \in next[r] : J[m] = z
  /\ \A n \in G : /\ n # r => n \notin Joins(next)
                  /\ rank[r] <= rank[n]
                  /\ next[n] \subseteq G \cup {z}
  /\ \A n \in DOMAIN next \ G : next[n] \cap G \subseteq {r}
  /\ \A n \in G : n # r => \E m \in G : n \in next[m]

(* What lies behind r and belongs to no other branch is a region that only *)
(* r leads into, and that only joins are behind.                           *)
LEMMA RegionIs ==
  ASSUME NEW next, Core(next), NEW rank, NEW J, Layers(next, Joins(next), rank, J),
         NEW r \in DOMAIN next \ {"form-node", "end-node"}, NEW z, \A m \in next[r] : J[m] = z,
         NEW own, DOMAIN own = DOMAIN next, \A n \in DOMAIN next : own[n] = {m \in next[n] : m \notin Joins(next)}
  PROVE  Region(next, rank, J, r, z, Reach(own, {r}))
  <1> DEFINE D == DOMAIN next
             G == Reach(own, {r})
             T == {n \in D : n = r \/ (rank[r] < rank[n] /\ n \notin Joins(next) /\ J[n] = z)}
  <1>1. /\ r \in G /\ G \subseteq D
        /\ \A n \in G : \A m \in next[n] : m \notin Joins(next) => m \in G
    <2>1. \A k \in DOMAIN own : own[k] \subseteq DOMAIN own
      BY DEF Core
    <2>2. r \in G /\ G \subseteq D
      BY ReachBegins
    <2>3. ASSUME NEW n \in G, NEW m \in next[n], m \notin Joins(next) PROVE m \in G
      <3>1. m \in own[n]
        BY <2>2, <2>3
      <3> HIDE DEF G
      <3> QED BY <2>1, <2>3, <3>1, ReachGoesOn DEF G
    <2> QED BY <2>2, <2>3
  <1>2. \A n \in D : rank[n] \in Nat
    BY DEF Layers
  <1>3. G \subseteq T
    <2>1. {r} \subseteq T /\ T \subseteq DOMAIN own
      OBVIOUS
    <2>2. ASSUME NEW n \in T, NEW m \in own[n] PROVE m \in T
      <3>1. m \in next[n] /\ m \notin Joins(next) /\ m \in D /\ n \in D /\ rank[n] < rank[m]
        BY <2>2 DEF Layers
      <3>2. rank[r] < rank[m]
        BY <1>2, <2>2, <3>1
      <3>3. J[m] = z
        BY <2>2, <3>1 DEF Layers
      <3> QED BY <3>1, <3>2, <3>3
    <2> HIDE DEF T
    <2> QED BY <2>1, <2>2, ReachStays
  <1>4. ASSUME NEW n \in G, n # r PROVE \E m \in G : n \in next[m]
    <2>1. \A k \in DOMAIN own : own[k] \subseteq DOMAIN own
      BY DEF Core
    <2>2. \E m \in G : n \in own[m]
      BY <1>4, <2>1, ReachComesFrom
    <2> QED BY <1>1, <2>2
  <1> HIDE DEF G
  <1>5. z \in Joins(next) \ G
    <2>1. PICK m \in next[r] : TRUE
      BY DEF Core
    <2>2. m \in D /\ J[m] = z /\ rank[r] < rank[m] /\ rank[m] <= rank[z] /\ z \in Joins(next) /\ z \in D
      BY <1>2, <2>1 DEF Layers
    <2>3. z # r
      BY <1>2, <2>2
    <2> QED BY <1>3, <2>2, <2>3
  <1>6. "form-node" \notin G /\ "end-node" \notin G
    <2>1. "end-node" \in Joins(next)
      BY DEF Core, Joins
    <2>2. ASSUME "form-node" \in G PROVE FALSE
      BY <1>1, <1>4, <2>2 DEF Core
    <2> QED BY <1>3, <2>1, <2>2
  <1>7. ASSUME NEW n \in G
        PROVE  /\ n # r => n \notin Joins(next)
               /\ rank[r] <= rank[n]
               /\ next[n] \subseteq G \cup {z}
    <2>1. n \in T
      BY <1>3
    <2>2. ASSUME NEW m \in next[n], m \in Joins(next) PROVE m = z
      <3>1. J[m] = m
        BY <2>2 DEF Layers
      <3>2. J[m] = z
        BY <2>1, <2>2 DEF Layers
      <3> QED BY <3>1, <3>2
    <2> QED BY <1>1, <1>2, <2>1, <2>2
  <1>8. ASSUME NEW n \in D \ G, NEW m \in next[n] \cap G PROVE m = r
    <2>1. SUFFICES ASSUME m # r PROVE FALSE
      OBVIOUS
    <2>2. PICK k \in G : m \in next[k]
      BY <1>4, <2>1
    <2>3. n # k /\ n \in Preds(next, m) /\ k \in Preds(next, m) /\ m \in D
      BY <1>1, <1>8, <2>2 DEF Preds
    <2>4. m \in Joins(next)
      BY <2>3 DEF Joins, Several
    <2> QED BY <1>7, <2>1, <2>4
  <1>9. Region(next, rank, J, r, z, G)
    BY <1>1, <1>4, <1>5, <1>6, <1>7, <1>8 DEF Region
  <1> QED BY <1>9 DEF G

(* A region is taken out; some of the nodes before it lead on to z.        *)
Prunes(next, r, z, G, next2) ==
  /\ DOMAIN next2 = DOMAIN next \ G
  /\ \A n \in DOMAIN next \ G :
       /\ next[n] \ {r} \subseteq next2[n]
       /\ next2[n] \subseteq (next[n] \ {r}) \cup (IF r \in next[n] THEN {z} ELSE {})
       /\ next2[n] = {} => n = "end-node"
  /\ Preds(next2, z) # {}

(* A region is taken out with its node: the graph that is left is in       *)
(* layers if what led to the region now leads to where its ways met.       *)
LEMMA PrunedCore ==
  ASSUME NEW next, Core(next), NEW rank, NEW J, Layers(next, Joins(next), rank, J),
         NEW r, NEW z, NEW G, Region(next, rank, J, r, z, G),
         NEW next2, Prunes(next, r, z, G, next2)
  PROVE  /\ Core(next2)
         /\ Joins(next2) \subseteq Joins(next) \ G
         /\ Preds(next2, z) \subseteq (Preds(next, z) \ G) \cup Preds(next, r)
         /\ Preds(next, z) \ G \subseteq Preds(next2, z)
         /\ Preds(next, r) \cap G = {}
         /\ \A n \in DOMAIN next2 \ {z} : Preds(next2, n) = Preds(next, n)
  <1> USE DEF Region, Prunes
  <1> DEFINE D  == DOMAIN next
             D2 == D \ G
             S1 == Joins(next) \ {r}
  <1>1. /\ z \in D2 /\ r \in D /\ r # z /\ z # "form-node"
        /\ \A n \in D : next[n] \subseteq D
        /\ \A n \in D : rank[n] \in Nat
    <2>1. PICK m \in next[r] : TRUE
      BY DEF Core
    <2>2. m # "form-node" /\ m \in D /\ J[m] = z /\ J["form-node"] \in D
      BY <2>1 DEF Core, Layers
    <2>3. z # "form-node"
      BY <2>2 DEF Core, Joins, Preds, Several
    <2> QED BY <2>3 DEF Joins, Core, Layers
  <1>2. Preds(next, r) \cap G = {}
    <2>1. ASSUME NEW n \in G, r \in next[n] PROVE FALSE
      <3>1. rank[n] < rank[r] /\ rank[n] \in Nat /\ rank[r] \in Nat /\ rank[r] <= rank[n]
        BY <2>1 DEF Layers
      <3> QED BY <3>1
    <2> QED BY <2>1 DEF Preds
  <1>3. /\ Preds(next2, z) \subseteq (Preds(next, z) \ G) \cup Preds(next, r)
        /\ Preds(next, z) \ G \subseteq Preds(next2, z)
    BY <1>1, <1>2 DEF Preds
  <1>4. \A n \in D2 \ {z} : Preds(next2, n) = Preds(next, n)
    <2> TAKE n \in D2 \ {z}
    <2>1. ASSUME NEW m \in Preds(next2, n) PROVE m \in Preds(next, n)
      BY <2>1 DEF Preds
    <2>2. ASSUME NEW m \in Preds(next, n) PROVE m \in Preds(next2, n)
      <3>1. m \notin G /\ n # r
        BY <2>2 DEF Preds
      <3> QED BY <2>2, <3>1 DEF Preds
    <2> QED BY <2>1, <2>2
  <1>5. \A n \in D2 \ {z} : n \in Joins(next2) <=> n \in Joins(next)
    BY <1>4 DEF Joins
  <1>6. Joins(next2) \subseteq Joins(next) \ G /\ (Joins(next) \ G) \ {z} \subseteq Joins(next2)
    BY <1>5 DEF Joins
  <1>7. Layered(next2, S1 \cap D2)
    <2>1. PICK c \in next[r] : TRUE
      BY DEF Core
    <2>2. J[c] = z /\ c \in D
      BY <1>1, <2>1
    <2> DEFINE J1 == IF r \in Joins(next) THEN [n \in D |-> IF J[n] = r THEN J[c] ELSE J[n]] ELSE J
    <2>3. Layers(next, S1, rank, J1)
      <3>1. CASE r \in Joins(next)
        BY <2>1, <3>1, RemovedJoin
      <3>2. CASE r \notin Joins(next)
        <4>1. Joins(next) \ {r} = Joins(next) /\ J1 = J
          BY <3>2
        <4> HIDE DEF J1
        <4> QED BY <4>1
      <3> QED BY <3>1, <3>2
    <2>4. \A n \in D : J1[n] = IF J[n] = r THEN z ELSE J[n]
      BY <2>2 DEF Layers
    <2> HIDE DEF J1
    <2>5. /\ \A m \in next[r] : J1[m] = z
          /\ J1[r] = z /\ J1[z] = z
      <3>1. \A m \in next[r] : J1[m] = z
        BY <1>1, <2>4
      <3>2. J1[r] = z
        <4>1. r \notin S1
          OBVIOUS
        <4> QED BY <1>1, <2>1, <2>3, <3>1, <4>1 DEF Layers
      <3>3. J1[z] = z
        BY <1>1, <2>3 DEF Layers
      <3> QED BY <3>1, <3>2, <3>3
    <2>6. \A n \in D2 : J1[n] \in D2
      <3> TAKE n \in D2
      <3>1. J1[n] \in S1
        BY <2>3 DEF Layers
      <3> QED BY <3>1 DEF Joins
    <2>7. ASSUME NEW n \in D2, NEW m \in next2[n]
          PROVE  m \in D2 /\ (m \in next[n] \/ LeadsTo(next, S1, rank, J1, n, m))
      <3>1. CASE m \in next[n]
        BY <1>1, <2>7, <3>1
      <3>2. CASE m \notin next[n]
        <4>1. m = z /\ r \in next[n]
          BY <2>7, <3>2
        <4>2. rank[n] < rank[r] /\ rank[r] < rank[c] /\ J[c] = z /\ rank[c] <= rank[z]
          <5>1. rank[n] < rank[r] /\ rank[r] < rank[c]
            BY <1>1, <2>1, <4>1 DEF Layers
          <5>2. rank[c] <= rank[J[c]]
            BY <1>1, <2>2 DEF Layers
          <5> QED BY <2>2, <5>1, <5>2
        <4>3. rank[n] < rank[z]
          BY <1>1, <2>2, <4>2
        <4>4. (n \notin S1 => J1[n] = J1[r]) /\ \A l \in next[n] : J1[l] = J1[r]
          BY <2>3, <4>1 DEF Layers
        <4> QED BY <1>1, <2>5, <4>1, <4>3, <4>4 DEF LeadsTo
      <3> QED BY <3>1, <3>2
    <2>8. Rewires(next, S1, rank, J1, D2, next2)
      BY <2>6, <2>7 DEF Rewires
    <2> HIDE DEF S1, D2
    <2> QED BY <2>3, <2>8, Rewired
  <1>8. Layered(next2, Joins(next2))
    <2>1. S1 \cap D2 = Joins(next) \ G
      BY DEF Joins
    <2>2. CASE z \in Joins(next2)
      <3>1. Joins(next2) = S1 \cap D2
        BY <1>6, <2>1, <2>2
      <3> QED BY <1>7, <3>1
    <2>3. CASE z \notin Joins(next2)
      <3>1. Joins(next2) = (S1 \cap D2) \ {z}
        BY <1>6, <2>1, <2>3
      <3>2. z # "end-node"
        BY <1>1, <2>3 DEF Joins
      <3>3. next2[z] # {} /\ z \in S1 \cap D2
        BY <1>1, <2>1, <3>2
      <3> HIDE DEF S1, D2
      <3> QED BY <1>7, <3>1, <3>3, FewerJoins
    <2> QED BY <2>2, <2>3
  <1>9. {"form-node", "end-node"} \subseteq DOMAIN next2
    BY DEF Core
  <1>10. ASSUME NEW n \in D2
         PROVE  /\ next2[n] \subseteq D2 \ {"form-node"}
                /\ next2[n] = {} <=> n = "end-node"
                /\ Preds(next2, n) = {} => n = "form-node"
    <2>1. next2[n] \subseteq D2 \ {"form-node"}
      BY <1>1 DEF Core
    <2>2. n = "end-node" => next2[n] = {}
      BY DEF Core
    <2>3. Preds(next2, n) = {} => n = "form-node"
      BY <1>4 DEF Core
    <2> QED BY <2>1, <2>2, <2>3
  <1> QED BY <1>2, <1>3, <1>4, <1>6, <1>8, <1>9, <1>10 DEF Core

--------------------------------------------------------------------------------
(* The flow that the editor keeps.                                         *)

(* The nodes that are kept, and what is true of them after every operation.*)
Types == {"form", "approval", "condition", "placeholder", "end"}

NodeSet == [type : Types, parents : SUBSET Keys, next : Keys \cup {None}, conditions : Seq(Keys \cup {None})]

Typed(g) == DOMAIN g \subseteq Keys /\ g \in [DOMAIN g -> NodeSet]

Ends(g) ==
  \A n \in DOMAIN g : (g[n].type = "form" <=> n = "form-node") /\ (g[n].type = "end" <=> n = "end-node")

Linked(g) ==
  /\ \A n \in DOMAIN g : n # "end-node" => NextNodes(g, n) \subseteq DOMAIN g
  /\ NextNodes(g, "end-node") = {None}

Agree(g) == \A n \in DOMAIN g : g[n].parents = Preds(Successors(g), n)

Parted(g) ==
  \A k \in DOMAIN g : g[k].type = "condition" =>
    NextNodes(g, k) \cap Joins(Successors(g)) = {} /\ IsInjective(g[k].conditions)

Places(g) ==
  \A n \in DOMAIN g : g[n].type = "placeholder" => \A m \in g[n].parents : g[m].type = "condition"

Built(g) ==
  /\ Typed(g) /\ Ends(g) /\ Linked(g) /\ Agree(g) /\ Core(Successors(g)) /\ Parted(g) /\ Places(g)

LEMMA KeysAre ==
  /\ None \notin Keys /\ "form-node" \in Keys /\ "end-node" \in Keys
  /\ Fresh \subseteq Keys /\ "form-node" \notin Fresh /\ "end-node" \notin Fresh
  /\ IsFiniteSet(Keys)
  <1>1. IsFiniteSet({"form-node", "end-node"})
    <2>1. IsFiniteSet({}) /\ IsFiniteSet({} \cup {"form-node"})
      BY FS_EmptySet, FS_AddElement
    <2>2. IsFiniteSet(({} \cup {"form-node"}) \cup {"end-node"})
      BY <2>1, FS_AddElement
    <2>3. ({} \cup {"form-node"}) \cup {"end-node"} = {"form-node", "end-node"}
      OBVIOUS
    <2> QED BY <2>2, <2>3
  <1>2. IsFiniteSet(Fresh \cup {"form-node", "end-node"})
    BY <1>1, BuilderAssumption, FS_Union
  <1> QED BY <1>2, BuilderAssumption DEF Keys, None

(* In a flow that is linked, the successors are what the nodes lead to.    *)
LEMMA SuccessorsAre ==
  ASSUME NEW g, Typed(g), Linked(g)
  PROVE  /\ DOMAIN Successors(g) = DOMAIN g
         /\ \A n \in DOMAIN g : Successors(g)[n] = IF n = "end-node" THEN {} ELSE NextNodes(g, n)
  BY KeysAre DEF Successors, Typed, Linked

(* What is used of a flow that was built in almost every proof.            *)
LEMMA BuiltFacts ==
  ASSUME NEW g, Built(g)
  PROVE  /\ "form-node" \in DOMAIN g /\ "end-node" \in DOMAIN g
         /\ DOMAIN Successors(g) = DOMAIN g
         /\ \A n \in DOMAIN g : Successors(g)[n] = IF n = "end-node" THEN {} ELSE NextNodes(g, n)
         /\ \A n \in DOMAIN g : Preds(Successors(g), n) \subseteq DOMAIN g
         /\ None \notin DOMAIN g
         /\ \A n \in DOMAIN g : IsShared(g, n) <=> n \in Joins(Successors(g))
  <1>1. /\ DOMAIN Successors(g) = DOMAIN g
        /\ \A n \in DOMAIN g : Successors(g)[n] = IF n = "end-node" THEN {} ELSE NextNodes(g, n)
    BY SuccessorsAre DEF Built
  <1>2. "form-node" \in DOMAIN g /\ "end-node" \in DOMAIN g
    BY <1>1 DEF Built, Core
  <1>3. \A n \in DOMAIN g : Preds(Successors(g), n) \subseteq DOMAIN g
    BY <1>1 DEF Preds
  <1>4. \A n \in DOMAIN g : IsShared(g, n) <=> n \in Joins(Successors(g))
    BY <1>1 DEF IsShared, Joins, Built, Agree, Ends
  <1> QED BY <1>1, <1>2, <1>3, <1>4, KeysAre DEF Built, Typed

--------------------------------------------------------------------------------
(* A node x, or a condition x with an empty place l behind it, is put      *)
(* between t and some of its parents.                                      *)
Puts(g, type, x, l, P, t, g2) ==
  /\ type \in {"approval", "condition"}
  /\ x \in Fresh \ DOMAIN g
  /\ IF type = "condition" THEN l \in Fresh \ DOMAIN g /\ l # x ELSE l = x
  /\ t \in DOMAIN g /\ g[t].type # "placeholder"
  /\ P # {} /\ P \subseteq g[t].parents /\ (~ Several(P) \/ P = g[t].parents)
  /\ Typed(g2) /\ DOMAIN g2 = DOMAIN g \cup {x, l}
  /\ \A n \in DOMAIN g :
       /\ g2[n].type = g[n].type
       /\ g2[n].parents = IF n = t THEN (g[t].parents \ P) \cup {l} ELSE g[n].parents
       /\ NextNodes(g2, n) = IF n \in P THEN (NextNodes(g, n) \ {t}) \cup {x} ELSE NextNodes(g, n)
       /\ g2[n].type = "condition" => IsInjective(g2[n].conditions)
  /\ g2[x].type = type /\ g2[x].parents = P
  /\ NextNodes(g2, x) = {IF type = "condition" THEN l ELSE t}
  /\ type = "condition" =>
       /\ IsInjective(g2[x].conditions)
       /\ g2[l].type = "placeholder" /\ g2[l].parents = {x} /\ NextNodes(g2, l) = {t}

(* A node put between others keeps the flow as it should be, alone or as a *)
(* condition with an empty place.                                          *)
LEMMA PutsBuilt ==
  ASSUME NEW g, Built(g), NEW type, NEW x, NEW l, NEW P, NEW t, NEW g2, Puts(g, type, x, l, P, t, g2)
  PROVE  Built(g2)
  <1> DEFINE D == DOMAIN g
             next  == Successors(g)
             next1 == [n \in D \cup {x} |->
                        IF n = x THEN {t} ELSE IF n \in P THEN (next[n] \ {t}) \cup {x} ELSE next[n]]
             next2 == Successors(g2)
  <1>1. /\ Typed(g) /\ Ends(g) /\ Linked(g) /\ Agree(g) /\ Core(next) /\ Parted(g) /\ Places(g)
        /\ "form-node" \in D /\ "end-node" \in D /\ None \notin D /\ DOMAIN next = D
        /\ \A n \in D : next[n] = IF n = "end-node" THEN {} ELSE NextNodes(g, n)
        /\ x \notin D /\ l \notin D /\ t \in D
    BY BuiltFacts DEF Built, Puts
  <1>2. P \subseteq Preds(next, t) /\ P # {} /\ (~ Several(P) \/ P = Preds(next, t))
    BY <1>1 DEF Puts, Agree
  <1>3. P \subseteq D /\ "end-node" \notin P
    BY <1>1, <1>2 DEF Preds
  <1> HIDE DEF next
  <1>4. Inserts(next, x, t, P, next1)
    BY <1>1, <1>2 DEF Inserts
  <1> HIDE DEF next1
  <1>5. Core(next1)
    BY <1>1, <1>2, <1>4, InsertedCore
  <1>6. /\ Preds(next1, x) = P
        /\ Preds(next1, t) = (Preds(next, t) \ P) \cup {x}
        /\ \A n \in D \ {t} : Preds(next1, n) = Preds(next, n)
    BY <1>1, <1>4, InsertedEdges
  <1>7. Joins(next1) = IF Several(P) THEN (Joins(next) \cup {x}) \ ({t} \ {"end-node"}) ELSE Joins(next)
    BY <1>1, <1>2, <1>4, InsertedJoins
  <1>8. DOMAIN next1 = D \cup {x} /\ next1[x] = {t}
    BY <1>1, <1>4 DEF Inserts
  <1>9. Typed(g2) /\ DOMAIN g2 = D \cup {x, l}
    BY DEF Puts
  <1>10. Ends(g2)
    <2>1. x # "form-node" /\ x # "end-node" /\ l # "form-node" /\ l # "end-node"
      BY <1>1
    <2> QED BY <1>1, <2>1 DEF Ends, Puts
  <1>11. Linked(g2)
    <2>1. \A n \in D : NextNodes(g2, n) = IF n \in P THEN (NextNodes(g, n) \ {t}) \cup {x} ELSE NextNodes(g, n)
      BY DEF Puts
    <2>2. NextNodes(g2, x) \subseteq D \cup {x, l} /\ NextNodes(g2, l) \subseteq D \cup {x, l}
      BY <1>1 DEF Puts
    <2>3. ASSUME NEW n \in D, n # "end-node" PROVE NextNodes(g2, n) \subseteq D \cup {x, l}
      <3>1. NextNodes(g, n) \subseteq D
        BY <1>1, <2>3 DEF Linked
      <3> QED BY <2>1, <3>1
    <2>4. NextNodes(g2, "end-node") = {None}
      BY <1>1, <1>3, <2>1 DEF Linked
    <2> QED BY <1>9, <2>2, <2>3, <2>4 DEF Linked
  <1>12. /\ DOMAIN next2 = D \cup {x, l}
         /\ \A n \in D \cup {x, l} : next2[n] = IF n = "end-node" THEN {} ELSE NextNodes(g2, n)
    <2>1. /\ DOMAIN next2 = DOMAIN g2
          /\ \A n \in DOMAIN g2 : next2[n] = IF n = "end-node" THEN {} ELSE NextNodes(g2, n)
      BY <1>9, <1>11, SuccessorsAre
    <2> QED BY <1>9, <2>1
  <1> HIDE DEF next2
  <1>13. \A n \in D : next2[n] = IF n \in P THEN (next[n] \ {t}) \cup {x} ELSE next[n]
    <2> TAKE n \in D
    <2>1. NextNodes(g2, n) = IF n \in P THEN (NextNodes(g, n) \ {t}) \cup {x} ELSE NextNodes(g, n)
      BY DEF Puts
    <2>2. next2[n] = IF n = "end-node" THEN {} ELSE NextNodes(g2, n)
      BY <1>12
    <2>3. next[n] = IF n = "end-node" THEN {} ELSE NextNodes(g, n)
      BY <1>1
    <2> QED BY <1>3, <2>1, <2>2, <2>3
  <1>14. x # "end-node" /\ l # "end-node"
    BY <1>1
  <1>15. /\ Core(next2)
         /\ Joins(next2) = Joins(next1)
         /\ \A n \in D : Preds(next2, n) = IF n = t THEN (Preds(next, t) \ P) \cup {l} ELSE Preds(next, n)
         /\ Preds(next2, x) = P
         /\ l # x => Preds(next2, l) = {x}
    <2>1. CASE type = "approval"
      <3>1. l = x
        BY <2>1 DEF Puts
      <3>2. next2[x] = {t}
        BY <1>12, <1>14, <2>1 DEF Puts
      <3>3. Inserts(next, x, t, P, next2)
        BY <1>1, <1>2, <1>12, <1>13, <3>1, <3>2 DEF Inserts
      <3>4. Core(next2)
        BY <1>1, <1>2, <3>3, InsertedCore
      <3>5. /\ Preds(next2, x) = P
            /\ Preds(next2, t) = (Preds(next, t) \ P) \cup {x}
            /\ \A n \in D \ {t} : Preds(next2, n) = Preds(next, n)
        BY <1>1, <3>3, InsertedEdges
      <3>6. Joins(next2) = IF Several(P) THEN (Joins(next) \cup {x}) \ ({t} \ {"end-node"}) ELSE Joins(next)
        BY <1>1, <1>2, <3>3, InsertedJoins
      <3> QED BY <1>7, <3>1, <3>4, <3>5, <3>6
    <2>2. CASE type = "condition"
      <3>1. l # x /\ l \notin DOMAIN next1
        BY <1>1, <1>8, <2>2 DEF Puts
      <3>2. next2[x] = {l} /\ next2[l] = {t}
        BY <1>12, <1>14, <2>2 DEF Puts
      <3>3. {x} \subseteq Preds(next1, t) /\ {x} # {} /\ ~ Several({x})
        BY <1>6 DEF Several
      <3>4. \A n \in DOMAIN next1 : next2[n] = IF n \in {x} THEN (next1[n] \ {t}) \cup {l} ELSE next1[n]
        BY <1>1, <1>4, <1>8, <1>13, <3>2 DEF Inserts
      <3>5. Inserts(next1, l, t, {x}, next2)
        BY <1>1, <1>8, <1>12, <3>1, <3>2, <3>3, <3>4 DEF Inserts
      <3>6. Core(next2)
        BY <1>5, <3>3, <3>5, InsertedCore
      <3>7. /\ Preds(next2, l) = {x}
            /\ Preds(next2, t) = (Preds(next1, t) \ {x}) \cup {l}
            /\ \A n \in DOMAIN next1 \ {t} : Preds(next2, n) = Preds(next1, n)
        BY <1>5, <3>5, InsertedEdges
      <3>8. Joins(next2) = Joins(next1)
        BY <1>5, <3>3, <3>5, InsertedJoins
      <3>9. x \notin Preds(next, t)
        BY <1>1 DEF Preds
      <3>10. Preds(next2, x) = P
        BY <1>1, <1>6, <1>8, <3>7
      <3>11. \A n \in D : Preds(next2, n) = IF n = t THEN (Preds(next, t) \ P) \cup {l} ELSE Preds(next, n)
        BY <1>1, <1>6, <1>8, <3>7, <3>9
      <3> QED BY <3>6, <3>7, <3>8, <3>10, <3>11
    <2> QED BY <2>1, <2>2 DEF Puts
  <1>16. Agree(g2)
    BY <1>1, <1>9, <1>15 DEF Agree, Puts, next, next2
  <1>17. Parted(g2)
    <2> SUFFICES ASSUME NEW k \in DOMAIN g2, g2[k].type = "condition"
                 PROVE  NextNodes(g2, k) \cap Joins(next2) = {} /\ IsInjective(g2[k].conditions)
      BY DEF Parted, next2
    <2>1. Joins(next2) \subseteq Joins(next) \cup (IF Several(P) THEN {x} ELSE {})
      BY <1>7, <1>15
    <2>2. CASE k \in D
      <3>1. g[k].type = "condition" /\ IsInjective(g2[k].conditions)
        BY <2>2 DEF Puts
      <3>2. NextNodes(g, k) \cap Joins(next) = {}
        BY <1>1, <2>2, <3>1 DEF Parted, next
      <3>3. x \notin NextNodes(g, k)
        <4>1. k # "end-node"
          BY <1>1, <2>2, <3>1 DEF Ends
        <4> QED BY <1>1, <2>2, <4>1 DEF Linked
      <3>4. CASE k \in P
        <4>1. t \in NextNodes(g, k)
          BY <1>1, <1>2, <3>4 DEF Preds
        <4>2. ~ Several(P)
          <5>1. ~ Several(Preds(next, t))
            BY <1>1, <3>2, <4>1 DEF Joins
          <5> QED BY <1>2, <5>1
        <4>3. x \notin Joins(next)
          BY <1>1 DEF Joins
        <4>4. NextNodes(g2, k) = (NextNodes(g, k) \ {t}) \cup {x}
          BY <2>2, <3>4 DEF Puts
        <4> QED BY <2>1, <3>1, <3>2, <4>2, <4>3, <4>4
      <3>5. CASE k \notin P
        <4>1. NextNodes(g2, k) = NextNodes(g, k)
          BY <2>2, <3>5 DEF Puts
        <4> QED BY <2>1, <3>1, <3>2, <3>3, <4>1
      <3> QED BY <3>4, <3>5
    <2>3. CASE k = x
      <3>1. type = "condition" /\ NextNodes(g2, k) = {l} /\ IsInjective(g2[k].conditions) /\ l # x
        BY <2>3 DEF Puts
      <3>2. l \notin Joins(next)
        BY <1>1 DEF Joins
      <3> QED BY <2>1, <3>1, <3>2
    <2>4. CASE k = l /\ k # x
      <3>1. g2[l].type # "condition"
        BY <2>4 DEF Puts
      <3> QED BY <2>4, <3>1
    <2> QED BY <1>9, <2>2, <2>3, <2>4
  <1>18. Places(g2)
    <2> SUFFICES ASSUME NEW n \in DOMAIN g2, g2[n].type = "placeholder", NEW m \in g2[n].parents
                 PROVE  g2[m].type = "condition"
      BY DEF Places
    <2>1. CASE n \in D
      <3>1. n # t /\ g2[n].parents = g[n].parents /\ g[n].type = "placeholder"
        BY <2>1 DEF Puts
      <3>2. g[m].type = "condition"
        BY <1>1, <2>1, <3>1 DEF Places
      <3>3. m \in D
        BY <1>1, <2>1, <3>1 DEF Agree, Preds, next
      <3> QED BY <3>2, <3>3 DEF Puts
    <2>2. CASE n \notin D
      <3>1. type = "condition" /\ n = l
        BY <2>2 DEF Puts
      <3> QED BY <3>1 DEF Puts
    <2> QED BY <2>1, <2>2
  <1> QED BY <1>9, <1>10, <1>11, <1>15, <1>16, <1>17, <1>18 DEF Built, next2

--------------------------------------------------------------------------------
(* What the operators of the editor return.                                *)

(* The edges that are drawn fit the nodes.                                 *)
Drawn(g, drawn) ==
  /\ DOMAIN drawn = DOMAIN g
  /\ \A n \in DOMAIN g :
       DOMAIN drawn[n] \subseteq Nat /\ drawn[n] \in [DOMAIN drawn[n] -> DOMAIN g]

(* The type invariant, in the two parts in which the operations keep it.   *)
LEMMA TypeOKIs ==
  TypeOK <=> Typed(nodes) /\ Drawn(nodes, edges) /\ bypassed \in BOOLEAN
  BY DEF TypeOK, Typed, Drawn, NodeSet, Types

LEMMA TypeOKIsAfter ==
  ASSUME Typed(nodes'), Drawn(nodes', edges'), bypassed' \in BOOLEAN
  PROVE  TypeOK'
  BY DEF TypeOK, Typed, Drawn, NodeSet, Types

(* The edges that are drawn anew fit the nodes they are drawn from.        *)
LEMMA CalculatedEdges ==
  ASSUME NEW g, Typed(g)
  PROVE  Drawn(g, calculateEdges(g))
  <1> SUFFICES ASSUME NEW n \in DOMAIN g
               PROVE  /\ DOMAIN calculateEdges(g)[n] \subseteq Nat
                      /\ calculateEdges(g)[n] \in [DOMAIN calculateEdges(g)[n] -> DOMAIN g]
    BY DEF Drawn, calculateEdges
  <1> DEFINE links == IF g[n].type = "condition" THEN g[n].conditions ELSE <<g[n].next>>
  <1>1. calculateEdges(g)[n] = [i \in {j \in DOMAIN links : links[j] \in DOMAIN g} |-> links[i]]
    BY DEF calculateEdges, RestrictValues, Restrict
  <1>2. DOMAIN links \subseteq Nat
    BY DEF Typed, NodeSet
  <1> HIDE DEF links
  <1> QED BY <1>1, <1>2

(* ... and lead where the nodes lead.                                      *)
LEMMA EdgesAreSuccessors ==
  ASSUME NEW g, Typed(g), Linked(g), Ends(g), NEW n \in DOMAIN g
  PROVE  {calculateEdges(g)[n][i] : i \in DOMAIN calculateEdges(g)[n]} = Successors(g)[n]
  <1> DEFINE links == IF g[n].type = "condition" THEN g[n].conditions ELSE <<g[n].next>>
  <1>1. calculateEdges(g)[n] = [i \in {j \in DOMAIN links : links[j] \in DOMAIN g} |-> links[i]]
    BY DEF calculateEdges, RestrictValues, Restrict
  <1>2. {links[i] : i \in DOMAIN links} = NextNodes(g, n)
    BY DEF NextNodes, ToSet
  <1> HIDE DEF links
  <1>3. {calculateEdges(g)[n][i] : i \in DOMAIN calculateEdges(g)[n]} = NextNodes(g, n) \cap DOMAIN g
    BY <1>1, <1>2
  <1> QED BY <1>3 DEF Successors

(* The fields of a node.                                                   *)
LEMMA NodeIs ==
  ASSUME NEW type \in Types, NEW parents \in SUBSET Keys, NEW next \in Keys \cup {None},
         NEW conditions \in Seq(Keys \cup {None})
  PROVE  /\ Node(type, parents, next, conditions) \in NodeSet
         /\ Node(type, parents, next, conditions).type = type
         /\ Node(type, parents, next, conditions).parents = parents
         /\ Node(type, parents, next, conditions).next = next
         /\ Node(type, parents, next, conditions).conditions = conditions
  BY DEF Node, NodeSet

(* What is added with a new node, or with a new condition.                 *)
Extended(g, type, x, l, parents, next, g2) ==
  /\ DOMAIN g2 = DOMAIN g \cup {x, l}
  /\ g2 = [n \in DOMAIN g2 |-> g2[n]]
  /\ \A n \in DOMAIN g : g2[n] = g[n]
  /\ g2[x] \in NodeSet /\ g2[x].type = type /\ g2[x].parents = parents
  /\ NextNodes(g2, x) = {IF type = "condition" THEN l ELSE next}
  /\ type = "condition" =>
       /\ IsInjective(g2[x].conditions)
       /\ g2[l] \in NodeSet
       /\ g2[l].type = "placeholder"
       /\ g2[l].parents = {x}
       /\ NextNodes(g2, l) = {next}

LEMMA InsertedIs ==
  ASSUME NEW type \in {"approval", "condition"}, NEW x \in Keys, NEW p \in Keys,
         type = "condition" => x # p, NEW parents \in SUBSET Keys, NEW next \in Keys,
         NEW g, NEW l, l = LinkOf(type, x, p), x \notin DOMAIN g, l \notin DOMAIN g,
         NEW g2, g2 = With(g, Inserted(type, x, p, parents, next))
  PROVE  Extended(g, type, x, l, parents, next, g2)
  <1> DEFINE new == Inserted(type, x, p, parents, next)
  <1>1. DOMAIN new = {x, l}
    BY DEF Inserted, LinkOf, With, Put
  <1>2. CASE type = "condition"
    <2>1. l = p /\ x # p
      BY <1>2 DEF LinkOf
    <2>2. new[x] = Node("condition", parents, next, <<p>>) /\ new[p] = Node("placeholder", {x}, next, << >>)
      BY <1>2, <2>1 DEF Inserted, With, Put
    <2>3. <<p>> \in Seq(Keys \cup {None}) /\ ToSet(<<p>>) = {p} /\ IsInjective(<<p>>)
          /\ << >> \in Seq(Keys \cup {None})
      BY DEF ToSet, IsInjective
    <2> HIDE DEF new
    <2>4. /\ DOMAIN g2 = DOMAIN g \cup {x, l}
          /\ g2 = [n \in DOMAIN g2 |-> g2[n]]
          /\ \A n \in DOMAIN g : g2[n] = g[n]
          /\ g2[x] = Node("condition", parents, next, <<p>>) /\ g2[l] = Node("placeholder", {x}, next, << >>)
      BY <1>1, <2>1, <2>2 DEF With, new
    <2>5. /\ g2[x] \in NodeSet /\ g2[x].type = "condition" /\ g2[x].parents = parents /\ g2[x].conditions = <<p>>
      BY <2>3, <2>4 DEF Node, NodeSet, Types
    <2>6. /\ g2[l] \in NodeSet /\ g2[l].type = "placeholder" /\ g2[l].parents = {x} /\ g2[l].next = next
      BY <2>3, <2>4 DEF Node, NodeSet, Types
    <2>7. NextNodes(g2, x) = {p} /\ NextNodes(g2, l) = {next}
      BY <2>3, <2>5, <2>6 DEF NextNodes
    <2> QED BY <1>2, <2>1, <2>3, <2>4, <2>5, <2>6, <2>7 DEF Extended
  <1>3. CASE type = "approval"
    <2>1. l = x /\ new[x] = Node("approval", parents, next, << >>)
      BY <1>3 DEF Inserted, With, Put, LinkOf
    <2>2. << >> \in Seq(Keys \cup {None})
      OBVIOUS
    <2> HIDE DEF new
    <2>3. /\ DOMAIN g2 = DOMAIN g \cup {x, l}
          /\ g2 = [n \in DOMAIN g2 |-> g2[n]]
          /\ \A n \in DOMAIN g : g2[n] = g[n]
          /\ g2[x] = Node("approval", parents, next, << >>)
      BY <1>1, <2>1 DEF With, new
    <2>4. /\ g2[x] \in NodeSet /\ g2[x].type = "approval" /\ g2[x].parents = parents /\ g2[x].next = next
      BY <2>2, <2>3 DEF Node, NodeSet, Types
    <2>5. NextNodes(g2, x) = {next}
      BY <2>4 DEF NextNodes
    <2> QED BY <1>3, <2>1, <2>3, <2>4, <2>5 DEF Extended
  <1> QED BY <1>2, <1>3

(* A list of branches in which one target takes the place of another.      *)
LEMMA RelinkedIs ==
  ASSUME NEW T, NEW s \in Seq(T), NEW n, NEW m \in T
  PROVE  /\ Relinked(s, n, m) \in Seq(T)
         /\ DOMAIN Relinked(s, n, m) = DOMAIN s
         /\ ToSet(Relinked(s, n, m)) = IF n \in ToSet(s) THEN (ToSet(s) \ {n}) \cup {m} ELSE ToSet(s)
         /\ IsInjective(s) /\ m \notin ToSet(s) => IsInjective(Relinked(s, n, m))
  <1>1. Relinked(s, n, m) \in Seq(T) /\ DOMAIN Relinked(s, n, m) = DOMAIN s
    BY DEF Relinked
  <1>2. \A i \in DOMAIN s : Relinked(s, n, m)[i] = IF s[i] = n THEN m ELSE s[i]
    BY DEF Relinked
  <1>3. ToSet(Relinked(s, n, m)) = IF n \in ToSet(s) THEN (ToSet(s) \ {n}) \cup {m} ELSE ToSet(s)
    BY <1>1, <1>2 DEF ToSet
  <1>4. ASSUME IsInjective(s), m \notin ToSet(s) PROVE IsInjective(Relinked(s, n, m))
    BY <1>1, <1>2, <1>4 DEF IsInjective, ToSet
  <1> QED BY <1>1, <1>3, <1>4

(* A node that is redirected is still a node, with all else unchanged.     *)
LEMMA RedirectedIs ==
  ASSUME NEW node \in NodeSet, NEW n, NEW m \in Keys
  PROVE  /\ Redirected(node, n, m) \in NodeSet
         /\ Redirected(node, n, m).type = node.type
         /\ Redirected(node, n, m).parents = node.parents
         /\ node.type = "condition" => Redirected(node, n, m).conditions = Relinked(node.conditions, n, m)
         /\ node.type # "condition" => Redirected(node, n, m).next = IF node.next = n THEN m ELSE node.next
  <1>1. Relinked(node.conditions, n, m) \in Seq(Keys \cup {None})
    BY RelinkedIs DEF NodeSet
  <1> QED BY <1>1 DEF Redirected, NodeSet

(* What a node that led to n leads to when it is directed to m.            *)
LEMMA RedirectedNext ==
  ASSUME NEW g, NEW g2, NEW k, NEW n, NEW m \in Keys, g[k] \in NodeSet, n \in NextNodes(g, k),
         g2[k] = Redirected(g[k], n, m)
  PROVE  /\ NextNodes(g2, k) = (NextNodes(g, k) \ {n}) \cup {m}
         /\ g[k].type = "condition" /\ IsInjective(g[k].conditions) /\ m \notin NextNodes(g, k)
              => IsInjective(g2[k].conditions)
  <1>1. CASE g[k].type = "condition"
    <2>1. g[k].conditions \in Seq(Keys \cup {None}) /\ NextNodes(g, k) = ToSet(g[k].conditions)
      BY <1>1 DEF NodeSet, NextNodes
    <2>2. g2[k].type = "condition" /\ g2[k].conditions = Relinked(g[k].conditions, n, m)
      BY <1>1, RedirectedIs
    <2> QED BY <2>1, <2>2, RelinkedIs DEF NextNodes
  <1>2. CASE g[k].type # "condition"
    <2>1. NextNodes(g, k) = {g[k].next} /\ n = g[k].next
      BY <1>2 DEF NextNodes
    <2>2. g2[k].type # "condition" /\ g2[k].next = m
      BY <1>2, <2>1, RedirectedIs
    <2> QED BY <1>2, <2>1, <2>2 DEF NextNodes
  <1> QED BY <1>1, <1>2

--------------------------------------------------------------------------------
(* Insertion (insertNodeAfter, insertNodeBefore).                          *)

(* insertNodeAfter keeps the flow.                                         *)
LEMMA InsertedAfter ==
  ASSUME Built(nodes), NEW type \in {"approval", "condition"}, NEW s \in DOMAIN nodes,
         NEW x \in Fresh, NEW p \in Fresh, NewKeys(type, x, p), insertNodeAfter(type, s, x, p)
  PROVE  Built(nodes') /\ Drawn(nodes', edges')
  <1> DEFINE D == DOMAIN nodes
             t == nodes[s].next
             l == LinkOf(type, x, p)
             old == [n \in D |->
                      IF n = s THEN [nodes[n] EXCEPT !.next = x]
                      ELSE [nodes[n] EXCEPT !.parents = Reparented(@, s, {l})]]
  <1>1. /\ nodes[s].type \in {"form", "approval"}
        /\ nodes' = With(old, Inserted(type, x, p, {s}, t)) /\ edges' = calculateEdges(nodes')
    BY DEF insertNodeAfter, applyLayout
  <1>2. /\ x \in Fresh \ D
        /\ IF type = "condition" THEN p \in Fresh \ D /\ l = p /\ x # p ELSE l = x
    BY DEF NewKeys, NewKey, LinkOf
  <1>3. Typed(nodes) /\ Ends(nodes) /\ Linked(nodes) /\ Agree(nodes) /\ Places(nodes)
    BY DEF Built
  <1>4. /\ DOMAIN Successors(nodes) = D
        /\ \A n \in D : Successors(nodes)[n] = IF n = "end-node" THEN {} ELSE NextNodes(nodes, n)
        /\ "end-node" \in D
    BY BuiltFacts
  <1>5. /\ s # "end-node" /\ t \in D /\ NextNodes(nodes, s) = {t}
        /\ s \in nodes[t].parents
        /\ \A n \in D : s \in nodes[n].parents => n = t
    <2>1. s # "end-node" /\ NextNodes(nodes, s) = {t}
      BY <1>1, <1>3 DEF Ends, NextNodes
    <2>2. t \in D
      BY <1>3, <2>1 DEF Linked
    <2>3. \A n \in D : s \in nodes[n].parents <=> n = t
      BY <1>3, <1>4, <2>1 DEF Agree, Preds
    <2> QED BY <2>1, <2>2, <2>3
  <1>6. nodes[t].type # "placeholder"
    BY <1>1, <1>3, <1>5 DEF Places
  <1> HIDE DEF t, l
  <1>7. /\ s \in Keys /\ x \in Keys /\ l \in Keys /\ p \in Keys /\ t \in Keys /\ D \subseteq Keys
        /\ \A n \in D : nodes[n] \in NodeSet
    BY <1>2, <1>3, <1>5, KeysAre DEF Typed
  <1>8. DOMAIN old = D /\ x \notin DOMAIN old /\ l \notin DOMAIN old
    BY <1>2
  <1>9. /\ DOMAIN nodes' = D \cup {x, l}
        /\ nodes' = [n \in DOMAIN nodes' |-> nodes'[n]]
        /\ \A n \in D : nodes'[n] = old[n]
        /\ nodes'[x] \in NodeSet /\ nodes'[x].type = type /\ nodes'[x].parents = {s}
        /\ NextNodes(nodes', x) = {IF type = "condition" THEN l ELSE t}
        /\ type = "condition" =>
             /\ IsInjective(nodes'[x].conditions)
             /\ nodes'[l] \in NodeSet /\ nodes'[l].type = "placeholder" /\ nodes'[l].parents = {x}
             /\ NextNodes(nodes', l) = {t}
    <2> HIDE DEF old
    <2>1. type = "condition" => x # p
      BY <1>2
    <2>2. {s} \in SUBSET Keys
      BY <1>7
    <2>3. nodes' = With(old, Inserted(type, x, p, {s}, t)) /\ l = LinkOf(type, x, p)
      BY <1>1 DEF l
    <2>4. Extended(old, type, x, l, {s}, t, nodes')
      BY <1>7, <1>8, <2>1, <2>2, <2>3, InsertedIs
    <2> QED BY <1>8, <2>4 DEF Extended
  <1>10. \A n \in D :
           /\ nodes'[n] \in NodeSet /\ nodes'[n].type = nodes[n].type
           /\ nodes'[n].conditions = nodes[n].conditions
           /\ nodes'[n].next = IF n = s THEN x ELSE nodes[n].next
           /\ nodes'[n].parents = IF n = t THEN (nodes[t].parents \ {s}) \cup {l} ELSE nodes[n].parents
    <2> TAKE n \in D
    <2>1. CASE n = s
      <3>1. n # t
        BY <1>3, <1>4, <1>5, <2>1, EdgeFacts DEF Built, Core, Layered
      <3>2. nodes'[n] = [nodes[n] EXCEPT !.next = x]
        BY <1>9, <2>1
      <3> QED BY <1>7, <2>1, <3>1, <3>2 DEF NodeSet
    <2>2. CASE n # s
      <3>1. nodes'[n] = [nodes[n] EXCEPT !.parents = Reparented(nodes[n].parents, s, {l})]
        BY <1>9, <2>2
      <3>2. Reparented(nodes[n].parents, s, {l})
              = IF n = t THEN (nodes[t].parents \ {s}) \cup {l} ELSE nodes[n].parents
        BY <1>5 DEF Reparented
      <3>3. Reparented(nodes[n].parents, s, {l}) \in SUBSET Keys
        BY <1>7, <3>2 DEF NodeSet
      <3> QED BY <1>7, <2>2, <3>1, <3>2, <3>3 DEF NodeSet
    <2> QED BY <2>1, <2>2
  <1>11. \A n \in D :
           /\ NextNodes(nodes', n) = IF n \in {s} THEN (NextNodes(nodes, n) \ {t}) \cup {x} ELSE NextNodes(nodes, n)
           /\ nodes'[n].type = "condition" => IsInjective(nodes'[n].conditions)
    <2>1. \A n \in D : nodes[n].type = "condition" => IsInjective(nodes[n].conditions)
      BY DEF Built, Parted
    <2>2. \A n \in D \ {s} : NextNodes(nodes', n) = NextNodes(nodes, n)
      BY <1>10 DEF NextNodes
    <2>3. NextNodes(nodes', s) = {x}
      BY <1>1, <1>10 DEF NextNodes
    <2> QED BY <1>5, <1>10, <2>1, <2>2, <2>3
  <1>12. Typed(nodes')
    <2>1. DOMAIN nodes' \subseteq Keys
      BY <1>7, <1>9
    <2>2. \A n \in DOMAIN nodes' : nodes'[n] \in NodeSet
      BY <1>2, <1>9, <1>10
    <2> QED BY <1>9, <2>1, <2>2 DEF Typed
  <1>13. Puts(nodes, type, x, l, {s}, t, nodes')
    <2>1. ~ Several({s})
      BY DEF Several
    <2> HIDE DEF old
    <2> QED BY <1>2, <1>5, <1>6, <1>9, <1>10, <1>11, <1>12, <2>1 DEF Puts
  <1>14. Built(nodes')
    BY <1>13, PutsBuilt
  <1> QED BY <1>1, <1>12, <1>14, CalculatedEdges

(* insertNodeBefore keeps the flow.                                        *)
LEMMA InsertedBefore ==
  ASSUME Built(nodes), NEW type \in {"approval", "condition"}, NEW t \in DOMAIN nodes,
         NEW x \in Fresh, NEW p \in Fresh, NewKeys(type, x, p), insertNodeBefore(type, t, x, p)
  PROVE  Built(nodes') /\ Drawn(nodes', edges')
  <1> DEFINE D == DOMAIN nodes
             P == nodes[t].parents
             l == LinkOf(type, x, p)
             old == [n \in D |->
                      IF n = t THEN [nodes[n] EXCEPT !.parents = {l}]
                      ELSE IF n \in P THEN Redirected(nodes[n], t, x)
                      ELSE nodes[n]]
  <1>1. /\ nodes[t].type \in {"approval", "condition", "end"} /\ P # {}
        /\ nodes' = With(old, Inserted(type, x, p, P, t)) /\ edges' = calculateEdges(nodes')
    BY DEF insertNodeBefore, applyLayout
  <1>2. /\ x \in Fresh \ D
        /\ IF type = "condition" THEN p \in Fresh \ D /\ l = p /\ x # p ELSE l = x
    BY DEF NewKeys, NewKey, LinkOf
  <1>3. Typed(nodes) /\ Ends(nodes) /\ Linked(nodes) /\ Agree(nodes) /\ Places(nodes)
    BY DEF Built
  <1>4. /\ DOMAIN Successors(nodes) = D
        /\ \A n \in D : Successors(nodes)[n] = IF n = "end-node" THEN {} ELSE NextNodes(nodes, n)
        /\ "end-node" \in D
    BY BuiltFacts
  <1>5. \A n \in D : n \in P => n # t /\ n # "end-node" /\ t \in NextNodes(nodes, n)
    <2>1. \A n \in P : t \in Successors(nodes)[n]
      BY <1>3 DEF Agree, Preds
    <2>2. t \notin Successors(nodes)[t]
      BY <1>4, EdgeFacts DEF Built, Core, Layered
    <2> QED BY <1>4, <2>1, <2>2
  <1>6. P \subseteq D
    BY <1>3, <1>4 DEF Agree, Preds
  <1> HIDE DEF l, P
  <1>7. /\ P \subseteq Keys /\ x \in Keys /\ l \in Keys /\ p \in Keys /\ t \in Keys /\ D \subseteq Keys
        /\ \A n \in D : nodes[n] \in NodeSet
    BY <1>2, <1>3, <1>6, KeysAre DEF Typed
  <1>8. DOMAIN old = D /\ x \notin DOMAIN old /\ l \notin DOMAIN old
    BY <1>2
  <1>9. /\ DOMAIN nodes' = D \cup {x, l}
        /\ nodes' = [n \in DOMAIN nodes' |-> nodes'[n]]
        /\ \A n \in D : nodes'[n] = old[n]
        /\ nodes'[x] \in NodeSet /\ nodes'[x].type = type /\ nodes'[x].parents = P
        /\ NextNodes(nodes', x) = {IF type = "condition" THEN l ELSE t}
        /\ type = "condition" =>
             /\ IsInjective(nodes'[x].conditions)
             /\ nodes'[l] \in NodeSet /\ nodes'[l].type = "placeholder" /\ nodes'[l].parents = {x}
             /\ NextNodes(nodes', l) = {t}
    <2> HIDE DEF old
    <2>1. type = "condition" => x # p
      BY <1>2
    <2>2. P \in SUBSET Keys
      BY <1>7
    <2>3. nodes' = With(old, Inserted(type, x, p, P, t)) /\ l = LinkOf(type, x, p)
      BY <1>1 DEF l
    <2>4. Extended(old, type, x, l, P, t, nodes')
      BY <1>7, <1>8, <2>1, <2>2, <2>3, InsertedIs
    <2> QED BY <1>8, <2>4 DEF Extended
  <1>10. ASSUME NEW n \in D
         PROVE  /\ nodes'[n] \in NodeSet /\ nodes'[n].type = nodes[n].type
                /\ nodes'[n].parents = IF n = t THEN (nodes[t].parents \ P) \cup {l} ELSE nodes[n].parents
                /\ NextNodes(nodes', n) = IF n \in P THEN (NextNodes(nodes, n) \ {t}) \cup {x} ELSE NextNodes(nodes, n)
                /\ nodes'[n].type = "condition" => IsInjective(nodes'[n].conditions)
    <2>1. nodes[n].type = "condition" => IsInjective(nodes[n].conditions)
      BY DEF Built, Parted
    <2>2. CASE n = t
      <3>1. nodes'[n] = [nodes[n] EXCEPT !.parents = {l}] /\ n \notin P
        BY <1>5, <1>9, <2>2
      <3>2. (nodes[t].parents \ P) \cup {l} = {l}
        BY DEF P
      <3>3. nodes[n] \in NodeSet /\ {l} \in SUBSET Keys
        BY <1>7
      <3>4. /\ nodes'[n] \in NodeSet /\ nodes'[n].type = nodes[n].type /\ nodes'[n].parents = {l}
            /\ nodes'[n].conditions = nodes[n].conditions /\ nodes'[n].next = nodes[n].next
        BY <3>1, <3>3 DEF NodeSet
      <3> QED BY <2>1, <2>2, <3>1, <3>2, <3>4 DEF NextNodes
    <2>3. CASE n \in P
      <3>1. nodes'[n] = Redirected(nodes[n], t, x) /\ n # t
        BY <1>5, <1>9, <2>3
      <3>2. nodes[n] \in NodeSet /\ x \in Keys /\ t \in NextNodes(nodes, n)
        BY <1>5, <1>7, <2>3
      <3>3. /\ nodes'[n] \in NodeSet /\ nodes'[n].type = nodes[n].type
            /\ nodes'[n].parents = nodes[n].parents
        BY <3>1, <3>2, RedirectedIs
      <3>4. x \notin NextNodes(nodes, n)
        <4>1. n # "end-node"
          BY <1>5, <2>3
        <4> QED BY <1>2, <1>3, <4>1 DEF Linked
      <3>5. /\ NextNodes(nodes', n) = (NextNodes(nodes, n) \ {t}) \cup {x}
            /\ nodes[n].type = "condition" => IsInjective(nodes'[n].conditions)
        BY <2>1, <3>1, <3>2, <3>4, RedirectedNext
      <3> QED BY <2>3, <3>1, <3>3, <3>5
    <2>4. CASE n # t /\ n \notin P
      <3>1. nodes'[n] = nodes[n]
        BY <1>9, <2>4
      <3> QED BY <1>7, <2>1, <2>4, <3>1 DEF NextNodes
    <2> QED BY <2>2, <2>3, <2>4
  <1>11. Typed(nodes')
    <2>1. DOMAIN nodes' \subseteq Keys
      BY <1>7, <1>9
    <2>2. \A n \in DOMAIN nodes' : nodes'[n] \in NodeSet
      BY <1>2, <1>9, <1>10
    <2> QED BY <1>9, <2>1, <2>2 DEF Typed
  <1>12. Puts(nodes, type, x, l, P, t, nodes')
    <2>1. P \subseteq nodes[t].parents /\ P = nodes[t].parents /\ nodes[t].type # "placeholder"
      BY <1>1 DEF P
    <2> HIDE DEF old
    <2> QED BY <1>1, <1>2, <1>9, <1>10, <1>11, <2>1 DEF Puts
  <1>13. Built(nodes')
    BY <1>12, PutsBuilt
  <1> QED BY <1>1, <1>11, <1>13, CalculatedEdges

--------------------------------------------------------------------------------
(* A new branch (addConditionBranch).                                      *)

(* What is met first of the shared nodes behind a node is its join.        *)
LEMMA AheadIsJoin ==
  ASSUME Built(nodes), NEW rank, NEW J, Layers(Successors(nodes), Joins(Successors(nodes)), rank, J),
         NEW k \in DOMAIN nodes, NEW f, DOMAIN f = DOMAIN nodes,
         \A n \in DOMAIN nodes : f[n] \subseteq Successors(nodes)[n],
         NEW S, S \subseteq Successors(nodes)[k], NEW z \in SharedAhead(f, S)
  PROVE  z \in Joins(Successors(nodes)) /\ \A m \in Successors(nodes)[k] : J[m] = z
  <1> DEFINE D == DOMAIN nodes
             next == Successors(nodes)
             onward == [n \in D |-> IF IsShared(nodes, n) THEN {} ELSE f[n]]
  <1>1. z \in Reach(onward, S) /\ IsShared(nodes, z)
    BY DEF SharedAhead
  <1>2. /\ DOMAIN next = D /\ \A n \in D : next[n] \subseteq D
        /\ \A n \in D : IsShared(nodes, n) <=> n \in Joins(next)
    BY BuiltFacts DEF Built, Core
  <1>3. z \in D
    BY <1>1 DEF Reach
  <1>4. z \in Joins(next) /\ J[z] = z
    BY <1>1, <1>2, <1>3 DEF Layers
  <1> SUFFICES ASSUME NEW m \in next[k] PROVE J[m] = z
    BY <1>4
  <1> DEFINE T == {n \in D : J[n] = J[m]}
  <1>5. \A l \in next[k] : l \in T
    BY <1>2 DEF Layers
  <1>6. \A n \in T : onward[n] \subseteq T
    BY <1>2 DEF Layers
  <1>7. Reach(onward, S) \subseteq T
    <2>1. S \subseteq T /\ T \subseteq DOMAIN onward
      BY <1>5
    <2> HIDE DEF T, onward
    <2> QED BY <1>6, <2>1, ReachStays
  <1> QED BY <1>1, <1>4, <1>7

(* An empty place is no join.                                              *)
LEMMA PlacesApart ==
  ASSUME NEW g, Built(g), NEW n \in DOMAIN g, g[n].type = "placeholder"
  PROVE  n \notin Joins(Successors(g))
  <1>1. /\ DOMAIN Successors(g) = DOMAIN g
        /\ \A m \in DOMAIN g : Successors(g)[m] = IF m = "end-node" THEN {} ELSE NextNodes(g, m)
    BY BuiltFacts
  <1>2. SUFFICES ASSUME n \in Joins(Successors(g)) PROVE FALSE
    OBVIOUS
  <1>3. n # "end-node"
    BY DEF Built, Ends
  <1>4. PICK m \in Preds(Successors(g), n) : TRUE
    BY <1>2, <1>3 DEF Joins, Several
  <1>5. m \in DOMAIN g /\ n \in NextNodes(g, m) /\ m \in g[n].parents
    BY <1>1, <1>4 DEF Preds, Built, Agree
  <1>6. g[m].type = "condition"
    BY <1>5 DEF Built, Places
  <1> QED BY <1>2, <1>5, <1>6 DEF Built, Parted

--------------------------------------------------------------------------------
(* A branch with an empty place x is added to k, and leads to z.           *)
Forks(g, k, x, z, g2) ==
  /\ k \in DOMAIN g /\ g[k].type = "condition"
  /\ x \in Fresh \ DOMAIN g
  /\ z \in DOMAIN g
  /\ Typed(g2) /\ DOMAIN g2 = DOMAIN g \cup {x}
  /\ \A n \in DOMAIN g :
       /\ g2[n].type = g[n].type
       /\ g2[n].parents = IF n = z THEN g[z].parents \cup {x} ELSE g[n].parents
       /\ NextNodes(g2, n) = IF n = k THEN NextNodes(g, k) \cup {x} ELSE NextNodes(g, n)
       /\ g2[n].type = "condition" => IsInjective(g2[n].conditions)
  /\ g2[x].type = "placeholder" /\ g2[x].parents = {k} /\ NextNodes(g2, x) = {z}

(* A flow with such a branch more is built.                                *)
LEMMA ForksBuilt ==
  ASSUME NEW g, Built(g), NEW rank, NEW J, Layers(Successors(g), Joins(Successors(g)), rank, J),
         NEW k, NEW x, NEW z \in Joins(Successors(g)), \A m \in Successors(g)[k] : J[m] = z,
         NEW g2, Forks(g, k, x, z, g2)
  PROVE  Built(g2)
  <1> DEFINE D == DOMAIN g
             next  == Successors(g)
             next2 == Successors(g2)
  <1>1. /\ Typed(g) /\ Ends(g) /\ Linked(g) /\ Agree(g) /\ Core(next) /\ Parted(g) /\ Places(g)
        /\ "form-node" \in D /\ "end-node" \in D /\ None \notin D /\ DOMAIN next = D
        /\ \A n \in D : next[n] = IF n = "end-node" THEN {} ELSE NextNodes(g, n)
        /\ x \notin D /\ z \in D /\ k \in D
    BY BuiltFacts DEF Built, Forks
  <1>2. k # "end-node" /\ x # "end-node" /\ x # "form-node" /\ g[z].type # "placeholder"
    <2>1. k # "end-node"
      BY <1>1 DEF Forks, Ends
    <2>2. g[z].type # "placeholder"
      BY <1>1, PlacesApart
    <2> QED BY <1>1, <2>1, <2>2
  <1>3. Typed(g2) /\ DOMAIN g2 = D \cup {x}
    BY DEF Forks
  <1>4. Ends(g2)
    <2> SUFFICES ASSUME NEW n \in D \cup {x}
                 PROVE  (g2[n].type = "form" <=> n = "form-node") /\ (g2[n].type = "end" <=> n = "end-node")
      BY <1>3 DEF Ends
    <2>1. CASE n = x
      BY <1>2, <2>1 DEF Forks
    <2>2. CASE n \in D
      BY <1>1, <2>2 DEF Forks, Ends
    <2> QED BY <2>1, <2>2
  <1>5. Linked(g2)
    <2>1. NextNodes(g2, "end-node") = {None}
      BY <1>1, <1>2 DEF Forks, Linked
    <2>2. ASSUME NEW n \in D \cup {x}, n # "end-node" PROVE NextNodes(g2, n) \subseteq D \cup {x}
      <3>1. CASE n = x
        BY <1>1, <3>1 DEF Forks
      <3>2. CASE n \in D
        BY <1>1, <2>2, <3>2 DEF Forks, Linked
      <3> QED BY <3>1, <3>2
    <2> QED BY <1>3, <2>1, <2>2 DEF Linked
  <1>6. /\ DOMAIN next2 = D \cup {x}
        /\ \A n \in D \cup {x} : next2[n] = IF n = "end-node" THEN {} ELSE NextNodes(g2, n)
    BY <1>3, <1>5, SuccessorsAre
  <1> HIDE DEF next, next2
  <1>7. /\ next2[x] = {z}
        /\ \A n \in D : next2[n] = IF n = k THEN next[n] \cup {x} ELSE next[n]
    <2>1. NextNodes(g2, x) = {z} /\ next2[x] = NextNodes(g2, x)
      BY <1>2, <1>6 DEF Forks
    <2>2. ASSUME NEW n \in D PROVE next2[n] = IF n = k THEN next[n] \cup {x} ELSE next[n]
      <3>1. NextNodes(g2, n) = IF n = k THEN NextNodes(g, k) \cup {x} ELSE NextNodes(g, n)
        BY DEF Forks
      <3> QED BY <1>1, <1>2, <1>6, <3>1
    <2> QED BY <2>1, <2>2
  <1>8. AddsBranch(next, k, x, z, next2)
    BY <1>1, <1>6, <1>7 DEF AddsBranch
  <1>9. /\ Core(next2) /\ Joins(next2) = Joins(next)
        /\ Preds(next2, x) = {k}
        /\ Preds(next2, z) = Preds(next, z) \cup {x}
        /\ \A n \in D \ {z} : Preds(next2, n) = Preds(next, n)
    <2>1. k \in DOMAIN next \ {"end-node"}
      BY <1>1, <1>2
    <2>2. Layers(next, Joins(next), rank, J) /\ z \in Joins(next) /\ \A m \in next[k] : J[m] = z
      BY DEF next
    <2> QED BY <1>1, <1>8, <2>1, <2>2, BranchedCore
  <1>10. Agree(g2)
    <2> SUFFICES ASSUME NEW n \in D \cup {x} PROVE g2[n].parents = Preds(next2, n)
      BY <1>3 DEF Agree, next2
    <2>1. CASE n = x
      BY <1>9, <2>1 DEF Forks
    <2>2. CASE n \in D
      <3>1. g[n].parents = Preds(next, n) /\ n # x
        BY <1>1, <2>2 DEF Agree, next
      <3>2. g2[n].parents = IF n = z THEN g[n].parents \cup {x} ELSE g[n].parents
        BY <2>2 DEF Forks
      <3> QED BY <1>9, <2>2, <3>1, <3>2
    <2> QED BY <2>1, <2>2
  <1>11. Parted(g2)
    <2> SUFFICES ASSUME NEW i \in D \cup {x}, g2[i].type = "condition"
                 PROVE  NextNodes(g2, i) \cap Joins(next) = {} /\ IsInjective(g2[i].conditions)
      BY <1>3, <1>9 DEF Parted, next2
    <2>1. i \in D
      BY DEF Forks
    <2>2. x \notin Joins(next)
      BY <1>1 DEF Joins
    <2>3. g[i].type = "condition"
      BY <2>1 DEF Forks
    <2>4. NextNodes(g, i) \cap Joins(next) = {}
      BY <1>1, <2>1, <2>3 DEF Parted, next
    <2> QED BY <2>1, <2>2, <2>4 DEF Forks
  <1>12. Places(g2)
    <2> SUFFICES ASSUME NEW i \in D \cup {x}, g2[i].type = "placeholder", NEW m \in g2[i].parents
                 PROVE  g2[m].type = "condition"
      BY <1>3 DEF Places
    <2>1. CASE i = x
      BY <2>1 DEF Forks
    <2>2. CASE i \in D
      <3>1. g[i].type = "placeholder" /\ i # z
        BY <1>2, <2>2 DEF Forks
      <3>2. m \in g[i].parents
        BY <2>2, <3>1 DEF Forks
      <3>3. m \in D /\ g[m].type = "condition"
        BY <1>1, <2>2, <3>1, <3>2 DEF Places, Agree, Preds, next
      <3> QED BY <3>3 DEF Forks
    <2> QED BY <2>1, <2>2
  <1> QED BY <1>3, <1>4, <1>5, <1>9, <1>10, <1>11, <1>12 DEF Built, next2

--------------------------------------------------------------------------------
BranchWith(k, x, z) ==
  With([n \in DOMAIN nodes |->
         IF n = z THEN [nodes[n] EXCEPT !.parents = @ \cup {x}]
         ELSE IF n = k THEN [nodes[n] EXCEPT !.conditions = Append(@, x)]
         ELSE nodes[n]],
       Put(x, Node("placeholder", {k}, z, << >>)))

(* What that does to the nodes.                                            *)
HasBranch(k, x, z, g2) ==
  /\ Typed(g2) /\ DOMAIN g2 = DOMAIN nodes \cup {x}
  /\ \A n \in DOMAIN nodes :
       /\ g2[n].type = nodes[n].type /\ g2[n].next = nodes[n].next
       /\ g2[n].parents = IF n = z THEN nodes[z].parents \cup {x} ELSE nodes[n].parents
       /\ g2[n].conditions = IF n = k /\ n # z THEN Append(nodes[k].conditions, x) ELSE nodes[n].conditions
  /\ g2[x] = Node("placeholder", {k}, z, << >>)

(* What addConditionBranch writes.                                         *)
LEMMA AddedBranchIs ==
  ASSUME Typed(nodes), NEW k \in DOMAIN nodes, NEW x \in Fresh \ DOMAIN nodes, NEW z \in DOMAIN nodes
  PROVE  HasBranch(k, x, z, BranchWith(k, x, z))
  <1> DEFINE D == DOMAIN nodes
             old == [n \in D |->
                      IF n = z THEN [nodes[n] EXCEPT !.parents = @ \cup {x}]
                      ELSE IF n = k THEN [nodes[n] EXCEPT !.conditions = Append(@, x)]
                      ELSE nodes[n]]
             new == Put(x, Node("placeholder", {k}, z, << >>))
             g2 == BranchWith(k, x, z)
  <1>1. /\ D \subseteq Keys /\ x \in Keys /\ {x} \subseteq Keys /\ {k} \in SUBSET Keys /\ z \in Keys
        /\ \A n \in D : nodes[n] \in NodeSet
    BY KeysAre DEF Typed
  <1>2. g2 = With(old, new) /\ DOMAIN old = D /\ DOMAIN new = {x} /\ new[x] = Node("placeholder", {k}, z, << >>)
    BY DEF BranchWith, Put
  <1>3. \A n \in D :
          /\ old[n] \in NodeSet
          /\ old[n].type = nodes[n].type /\ old[n].next = nodes[n].next
          /\ old[n].parents = IF n = z THEN nodes[z].parents \cup {x} ELSE nodes[n].parents
          /\ old[n].conditions = IF n = k /\ n # z THEN Append(nodes[k].conditions, x) ELSE nodes[n].conditions
    <2> TAKE n \in D
    <2>1. CASE n = z
      <3>1. nodes[n] \in NodeSet /\ nodes[n].parents \cup {x} \in SUBSET Keys
        BY <1>1 DEF NodeSet
      <3>2. old[n] = [nodes[n] EXCEPT !.parents = nodes[n].parents \cup {x}]
        BY <2>1
      <3> HIDE DEF old
      <3> QED BY <2>1, <3>1, <3>2 DEF NodeSet
    <2>2. CASE n # z /\ n = k
      <3>1. nodes[n] \in NodeSet /\ Append(nodes[n].conditions, x) \in Seq(Keys \cup {None})
        BY <1>1 DEF NodeSet
      <3>2. old[n] = [nodes[n] EXCEPT !.conditions = Append(nodes[n].conditions, x)]
        BY <2>2
      <3> HIDE DEF old
      <3> QED BY <2>2, <3>1, <3>2 DEF NodeSet
    <2>3. CASE n # z /\ n # k
      BY <1>1, <2>3
    <2> QED BY <2>1, <2>2, <2>3
  <1> HIDE DEF old, new
  <1>4. /\ DOMAIN g2 = D \cup {x} /\ g2 = [n \in DOMAIN g2 |-> g2[n]]
        /\ \A n \in D : g2[n] = old[n]
        /\ g2[x] = Node("placeholder", {k}, z, << >>)
    BY <1>2 DEF With
  <1>5. Node("placeholder", {k}, z, << >>) \in NodeSet
    <2>1. << >> \in Seq(Keys \cup {None}) /\ "placeholder" \in Types
      BY DEF Types
    <2> QED BY <1>1, <2>1, NodeIs
  <1> HIDE DEF g2
  <1>6. Typed(g2)
    BY <1>1, <1>3, <1>4, <1>5 DEF Typed
  <1>7. HasBranch(k, x, z, g2)
    BY <1>3, <1>4, <1>6 DEF HasBranch
  <1> QED BY <1>7 DEF g2

(* A branch appended to others that are apart.                             *)
LEMMA AppendIs ==
  ASSUME NEW T, NEW s \in Seq(T), NEW x \in T
  PROVE  /\ ToSet(Append(s, x)) = ToSet(s) \cup {x}
         /\ IsInjective(s) /\ x \notin ToSet(s) => IsInjective(Append(s, x))
  <1> DEFINE s2 == Append(s, x)
  <1>1. /\ Len(s) \in Nat /\ DOMAIN s = 1 .. Len(s) /\ DOMAIN s2 = 1 .. Len(s) + 1
        /\ \A i \in 1 .. Len(s) : s2[i] = s[i]
        /\ s2[Len(s) + 1] = x
    OBVIOUS
  <1> HIDE DEF s2
  <1>2. ToSet(s2) = ToSet(s) \cup {x}
    <2>1. \A y : y \in ToSet(s2) <=> \E i \in 1 .. Len(s) + 1 : s2[i] = y
      BY <1>1 DEF ToSet
    <2>2. \A y : y \in ToSet(s) <=> \E i \in 1 .. Len(s) : s[i] = y
      BY <1>1 DEF ToSet
    <2>3. \A i \in 1 .. Len(s) + 1 : i \in 1 .. Len(s) \/ i = Len(s) + 1
      BY <1>1
    <2>4. 1 .. Len(s) \subseteq 1 .. Len(s) + 1 /\ Len(s) + 1 \in 1 .. Len(s) + 1
      BY <1>1
    <2> QED BY <1>1, <2>1, <2>2, <2>3, <2>4
  <1>3. ASSUME IsInjective(s), x \notin ToSet(s) PROVE IsInjective(s2)
    <2>1. \A i \in 1 .. Len(s) : s[i] # x
      BY <1>1, <1>3 DEF ToSet
    <2>2. \A i, j \in 1 .. Len(s) : s[i] = s[j] => i = j
      BY <1>1, <1>3 DEF IsInjective
    <2>3. \A i \in 1 .. Len(s) + 1 : i \in 1 .. Len(s) \/ i = Len(s) + 1
      BY <1>1
    <2> QED BY <1>1, <2>1, <2>2, <2>3 DEF IsInjective
  <1> QED BY <1>2, <1>3 DEF s2

(* addConditionBranch fits what it draws, also where it goes by edges that *)
(* were changed alone.                                                     *)
LEMMA BranchDrawn ==
  ASSUME Typed(nodes), NEW k \in DOMAIN nodes, NEW x \in Fresh, NewKey(x), addConditionBranch(k, x)
  PROVE  Typed(nodes') /\ Drawn(nodes', edges')
  <1>1. PICK z \in SharedAhead(FirstEdge, FirstEdge[k]) : applyLayout(BranchWith(k, x, z))
    BY DEF addConditionBranch, BranchWith
  <1>2. z \in DOMAIN nodes
    BY <1>1 DEF SharedAhead, Reach
  <1>3. Typed(BranchWith(k, x, z))
    BY <1>2, AddedBranchIs DEF NewKey, HasBranch
  <1>4. nodes' = BranchWith(k, x, z) /\ edges' = calculateEdges(nodes')
    BY <1>1 DEF applyLayout
  <1> QED BY <1>3, <1>4, CalculatedEdges

(* addConditionBranch keeps the flow, by the edges that are drawn from it. *)
LEMMA BranchAdded ==
  ASSUME Built(nodes), edges = calculateEdges(nodes),
         NEW k \in DOMAIN nodes, NEW x \in Fresh, NewKey(x), addConditionBranch(k, x)
  PROVE  Built(nodes')
  <1> DEFINE D == DOMAIN nodes
             next == Successors(nodes)
  <1>1. /\ Typed(nodes) /\ Ends(nodes) /\ Linked(nodes) /\ Agree(nodes) /\ Core(next) /\ Parted(nodes)
        /\ DOMAIN next = D /\ nodes[k].type = "condition" /\ x \in Fresh \ D
        /\ \A n \in D : next[n] = IF n = "end-node" THEN {} ELSE NextNodes(nodes, n)
    BY BuiltFacts DEF Built, addConditionBranch, NewKey
  <1>2. PICK z \in SharedAhead(FirstEdge, FirstEdge[k]) : applyLayout(BranchWith(k, x, z))
    BY DEF addConditionBranch, BranchWith
  <1>3. PICK rank, J : Layers(next, Joins(next), rank, J)
    BY <1>1 DEF Core, Layered
  <1>4. DOMAIN FirstEdge = D /\ \A n \in D : FirstEdge[n] \subseteq next[n]
    <2> SUFFICES ASSUME NEW n \in D PROVE FirstEdge[n] \subseteq next[n]
      BY DEF FirstEdge
    <2>1. FirstEdge[n] \subseteq {calculateEdges(nodes)[n][i] : i \in DOMAIN calculateEdges(nodes)[n]}
      BY DEF FirstEdge
    <2> QED BY <1>1, <2>1, EdgesAreSuccessors
  <1>5. z \in Joins(next) /\ \A m \in next[k] : J[m] = z
    <2>1. FirstEdge[k] \subseteq next[k]
      BY <1>4
    <2> HIDE DEF next
    <2>2. Layers(Successors(nodes), Joins(Successors(nodes)), rank, J)
      BY <1>3 DEF next
    <2>3. /\ \A n \in DOMAIN nodes : FirstEdge[n] \subseteq Successors(nodes)[n]
          /\ FirstEdge[k] \subseteq Successors(nodes)[k]
      BY <1>4 DEF next
    <2>4. z \in Joins(Successors(nodes)) /\ \A m \in Successors(nodes)[k] : J[m] = z
      BY <1>2, <1>4, <2>2, <2>3, AheadIsJoin
    <2> QED BY <2>4 DEF next
  <1>6. z \in D /\ z # k
    <2>1. z \in D
      BY <1>1, <1>5 DEF Joins
    <2>2. k # "end-node"
      BY <1>1 DEF Ends
    <2>3. PICK m \in next[k] : TRUE
      BY <1>1, <2>2 DEF Core
    <2>4. m \in D /\ J[m] = z /\ J[z] = z /\ rank[k] < rank[m] /\ rank[k] \in Nat /\ rank[m] \in Nat /\ rank[z] \in Nat
      BY <1>1, <1>3, <1>5, <2>1 DEF Layers
    <2>5. m = z \/ rank[m] < rank[z]
      BY <1>1, <1>3, <2>4 DEF Layers
    <2> QED BY <2>1, <2>4, <2>5
  <1>7. nodes' = BranchWith(k, x, z)
    BY <1>2 DEF applyLayout
  <1>8. /\ Typed(nodes') /\ DOMAIN nodes' = D \cup {x}
        /\ \A n \in D :
             /\ nodes'[n].type = nodes[n].type /\ nodes'[n].next = nodes[n].next
             /\ nodes'[n].parents = IF n = z THEN nodes[z].parents \cup {x} ELSE nodes[n].parents
             /\ nodes'[n].conditions = IF n = k /\ n # z THEN Append(nodes[k].conditions, x) ELSE nodes[n].conditions
        /\ nodes'[x] = Node("placeholder", {k}, z, << >>)
    <2>1. HasBranch(k, x, z, nodes')
      BY <1>1, <1>6, <1>7, AddedBranchIs
    <2> QED BY <2>1 DEF HasBranch
  <1>9. /\ ToSet(nodes'[k].conditions) = NextNodes(nodes, k) \cup {x}
        /\ IsInjective(nodes'[k].conditions)
    <2>1. nodes[k].conditions \in Seq(Keys \cup {None}) /\ x \in Keys \cup {None}
      BY <1>1, KeysAre DEF Typed, NodeSet
    <2>2. ToSet(nodes[k].conditions) = NextNodes(nodes, k)
      BY <1>1 DEF NextNodes
    <2>3. x \notin NextNodes(nodes, k) /\ IsInjective(nodes[k].conditions)
      <3>1. k # "end-node"
        BY <1>1 DEF Ends
      <3> QED BY <1>1, <3>1 DEF Linked, Parted
    <2>4. nodes'[k].conditions = Append(nodes[k].conditions, x)
      BY <1>6, <1>8
    <2> QED BY <2>1, <2>2, <2>3, <2>4, AppendIs
  <1>10. \A n \in D :
           /\ NextNodes(nodes', n) = IF n = k THEN NextNodes(nodes, k) \cup {x} ELSE NextNodes(nodes, n)
           /\ nodes'[n].type = "condition" => IsInjective(nodes'[n].conditions)
    <2> TAKE n \in D
    <2>1. CASE n = k
      BY <1>1, <1>8, <1>9, <2>1 DEF NextNodes
    <2>2. CASE n # k
      BY <1>1, <1>8, <2>2 DEF NextNodes, Parted
    <2> QED BY <2>1, <2>2
  <1>11. /\ nodes'[x].type = "placeholder" /\ nodes'[x].parents = {k} /\ NextNodes(nodes', x) = {z}
    BY <1>8 DEF Node, NextNodes
  <1>12. Forks(nodes, k, x, z, nodes')
    <2> HIDE DEF next
    <2>1. \A n \in DOMAIN nodes :
            /\ nodes'[n].type = nodes[n].type
            /\ nodes'[n].parents = IF n = z THEN nodes[z].parents \cup {x} ELSE nodes[n].parents
            /\ NextNodes(nodes', n) = IF n = k THEN NextNodes(nodes, k) \cup {x} ELSE NextNodes(nodes, n)
            /\ nodes'[n].type = "condition" => IsInjective(nodes'[n].conditions)
      BY <1>8, <1>10
    <2>2. /\ k \in DOMAIN nodes /\ nodes[k].type = "condition" /\ x \in Fresh \ DOMAIN nodes
          /\ z \in DOMAIN nodes
          /\ Typed(nodes') /\ DOMAIN nodes' = DOMAIN nodes \cup {x}
      BY <1>1, <1>6, <1>8
    <2> QED BY <1>11, <2>1, <2>2 DEF Forks
  <1> QED BY <1>3, <1>5, <1>12, ForksBuilt

--------------------------------------------------------------------------------
(* An empty place is filled or left (replaceNode, replaceNodeByCondition). *)

(* A node is an empty place, or none any more.                             *)
LEMMA RetypedBuilt ==
  ASSUME NEW g, Built(g), NEW r \in DOMAIN g, g[r].type \in {"approval", "placeholder"},
         NEW type \in {"approval", "placeholder"},
         type = "placeholder" => \A m \in g[r].parents : g[m].type = "condition",
         NEW g2, g2 = [g EXCEPT ![r] = Node(type, g[r].parents, g[r].next, << >>)]
  PROVE  Built(g2)
  <1> DEFINE D == DOMAIN g
  <1>1. /\ Typed(g) /\ Ends(g) /\ Linked(g) /\ Agree(g) /\ Core(Successors(g)) /\ Parted(g) /\ Places(g)
        /\ D \subseteq Keys /\ (\A n \in D : g[n] \in NodeSet) /\ g = [n \in D |-> g[n]]
    BY DEF Built, Typed
  <1>2. /\ DOMAIN g2 = D /\ g2 = [n \in D |-> g2[n]]
        /\ g2[r] = Node(type, g[r].parents, g[r].next, << >>)
        /\ \A n \in D \ {r} : g2[n] = g[n]
    BY <1>1
  <1>3. /\ g2[r] \in NodeSet /\ g2[r].type = type /\ g2[r].parents = g[r].parents /\ g2[r].next = g[r].next
    <2>1. g[r].parents \in SUBSET Keys /\ g[r].next \in Keys \cup {None} /\ << >> \in Seq(Keys \cup {None})
      BY <1>1 DEF NodeSet
    <2>2. type \in Types
      BY DEF Types
    <2>3. g2[r] = [type |-> type, parents |-> g[r].parents, next |-> g[r].next, conditions |-> << >>]
      BY <1>2 DEF Node
    <2>4. Node(type, g[r].parents, g[r].next, << >>) \in NodeSet
      BY <2>1, <2>2, NodeIs
    <2> QED BY <1>2, <2>3, <2>4
  <1> HIDE DEF D
  <1>4. \A n \in D : /\ g2[n] \in NodeSet /\ g2[n].parents = g[n].parents
                     /\ NextNodes(g2, n) = NextNodes(g, n)
                     /\ g2[n].type = "condition" <=> g[n].type = "condition"
                     /\ n # r => g2[n].type = g[n].type
                     /\ g2[n].type = "condition" => g2[n].conditions = g[n].conditions
    <2> TAKE n \in D
    <2>1. CASE n = r
      BY <1>3, <2>1 DEF NextNodes
    <2>2. CASE n # r
      BY <1>1, <1>2, <2>2 DEF NextNodes
    <2> QED BY <2>1, <2>2
  <1>5. Successors(g2) = Successors(g)
    BY <1>2, <1>4 DEF Successors, D
  <1>6. Typed(g2)
    BY <1>1, <1>2, <1>4 DEF Typed
  <1>7. r \in D /\ r # "form-node" /\ r # "end-node"
    BY <1>1 DEF Ends, D
  <1>8. Ends(g2)
    BY <1>1, <1>2, <1>3, <1>4, <1>7 DEF Ends, D
  <1>9. Linked(g2)
    <2>1. NextNodes(g, "end-node") = {None} /\ "end-node" \in D
      BY <1>1, BuiltFacts DEF Linked, D
    <2> QED BY <1>1, <1>2, <1>4, <2>1 DEF Linked, D
  <1>10. Agree(g2) /\ Core(Successors(g2))
    BY <1>1, <1>2, <1>4, <1>5 DEF Agree, D
  <1>11. Parted(g2)
    BY <1>1, <1>2, <1>4, <1>5 DEF Parted, D
  <1>12. Places(g2)
    <2> SUFFICES ASSUME NEW n \in D, g2[n].type = "placeholder", NEW m \in g[n].parents
                 PROVE  g2[m].type = "condition"
      BY <1>2, <1>4 DEF Places
    <2>1. m \in D
      BY <1>1, BuiltFacts DEF Agree, D
    <2>2. g[m].type = "condition"
      BY <1>1, <1>3, <1>4 DEF Places, D
    <2> QED BY <1>4, <2>1, <2>2
  <1> QED BY <1>6, <1>8, <1>9, <1>10, <1>11, <1>12 DEF Built

--------------------------------------------------------------------------------
(* An empty place r becomes a condition with an empty place p.             *)
Opens(g, r, p, g2) ==
  /\ p \in Fresh \ DOMAIN g
  /\ r \in DOMAIN g /\ g[r].type = "placeholder"
  /\ Typed(g2) /\ DOMAIN g2 = DOMAIN g \cup {p}
  /\ \A n \in DOMAIN g \ {r} :
       /\ g2[n].type = g[n].type
       /\ g2[n].parents = IF n = g[r].next THEN (g[n].parents \ {r}) \cup {p} ELSE g[n].parents
       /\ NextNodes(g2, n) = NextNodes(g, n)
       /\ g2[n].conditions = g[n].conditions
  /\ g2[r].type = "condition" /\ g2[r].parents = g[r].parents /\ NextNodes(g2, r) = {p}
  /\ IsInjective(g2[r].conditions)
  /\ g2[p].type = "placeholder" /\ g2[p].parents = {r} /\ NextNodes(g2, p) = {g[r].next}

(* A flow in which an empty place has become a condition is built.         *)
LEMMA OpensBuilt ==
  ASSUME NEW g, Built(g), NEW r, NEW p, NEW g2, Opens(g, r, p, g2)
  PROVE  Built(g2)
  <1> DEFINE D == DOMAIN g
             t == g[r].next
             next  == Successors(g)
             next2 == Successors(g2)
  <1>1. /\ Typed(g) /\ Ends(g) /\ Linked(g) /\ Agree(g) /\ Core(next) /\ Parted(g) /\ Places(g)
        /\ "form-node" \in D /\ "end-node" \in D /\ None \notin D /\ DOMAIN next = D
        /\ \A n \in D : next[n] = IF n = "end-node" THEN {} ELSE NextNodes(g, n)
        /\ p \notin D /\ r \in D
    BY BuiltFacts DEF Built, Opens
  <1>2. r # "form-node" /\ r # "end-node" /\ p # "end-node" /\ p # "form-node"
    BY <1>1 DEF Opens, Ends
  <1>3. /\ t \in D /\ next[r] = {t} /\ NextNodes(g, r) = {t} /\ t # r
        /\ g[t].type # "placeholder" /\ \A n \in D : r \in g[n].parents <=> n = t
    <2>1. NextNodes(g, r) = {t}
      BY DEF NextNodes, Opens
    <2>2. next[r] = {t} /\ t \in D
      BY <1>1, <1>2, <2>1 DEF Linked
    <2>3. t # r
      BY <1>1, <2>2, EdgeFacts DEF Core, Layered
    <2>4. \A n \in D : r \in g[n].parents <=> n = t
      BY <1>1, <2>2 DEF Agree, Preds
    <2>5. g[t].type # "placeholder"
      BY <1>1, <2>2, <2>4 DEF Places, Opens
    <2> QED BY <2>1, <2>2, <2>3, <2>4, <2>5
  <1>4. Typed(g2) /\ DOMAIN g2 = D \cup {p}
    BY DEF Opens
  <1> HIDE DEF t, next
  <1>5. Ends(g2)
    <2> SUFFICES ASSUME NEW n \in D \cup {p}
                 PROVE  (g2[n].type = "form" <=> n = "form-node") /\ (g2[n].type = "end" <=> n = "end-node")
      BY <1>4 DEF Ends
    <2>1. CASE n = p
      BY <1>2, <2>1 DEF Opens
    <2>2. CASE n = r
      <3>1. g2[r].type = "condition"
        BY DEF Opens
      <3> QED BY <1>2, <2>2, <3>1
    <2>3. CASE n \in D \ {r}
      <3>1. g2[n].type = g[n].type
        BY <2>3 DEF Opens
      <3> QED BY <1>1, <2>3, <3>1 DEF Ends
    <2> QED BY <2>1, <2>2, <2>3
  <1>6. Linked(g2)
    <2>1. NextNodes(g2, "end-node") = {None}
      BY <1>1, <1>2 DEF Opens, Linked
    <2>2. ASSUME NEW n \in D \cup {p}, n # "end-node" PROVE NextNodes(g2, n) \subseteq D \cup {p}
      <3>1. CASE n = p
        BY <1>3, <3>1 DEF Opens, t
      <3>2. CASE n = r
        BY <3>2 DEF Opens
      <3>3. CASE n \in D \ {r}
        BY <1>1, <2>2, <3>3 DEF Opens, Linked
      <3> QED BY <3>1, <3>2, <3>3
    <2> QED BY <1>4, <2>1, <2>2 DEF Linked
  <1>7. /\ DOMAIN next2 = D \cup {p}
        /\ \A n \in D \cup {p} : next2[n] = IF n = "end-node" THEN {} ELSE NextNodes(g2, n)
    BY <1>4, <1>6, SuccessorsAre
  <1> HIDE DEF next2
  <1>8. Inserts(next, p, t, {r}, next2) /\ ~ Several({r})
    <2>1. next2[p] = {t}
      BY <1>2, <1>7 DEF Opens, t
    <2>2. next2[r] = {p}
      BY <1>1, <1>2, <1>7 DEF Opens
    <2>3. \A n \in D \ {r} : next2[n] = next[n]
      <3> TAKE n \in D \ {r}
      <3>1. NextNodes(g2, n) = NextNodes(g, n)
        BY DEF Opens
      <3> QED BY <1>1, <1>7, <3>1
    <2>4. {r} \subseteq Preds(next, t)
      BY <1>1, <1>3 DEF Preds
    <2>5. \A n \in D : next2[n] = IF n \in {r} THEN (next[n] \ {t}) \cup {p} ELSE next[n]
      BY <1>3, <2>2, <2>3
    <2> QED BY <1>1, <1>3, <1>7, <2>1, <2>4, <2>5 DEF Inserts, Several
  <1>9. Core(next2)
    BY <1>1, <1>8, InsertedCore
  <1>10. Joins(next2) = Joins(next)
    BY <1>1, <1>8, InsertedJoins
  <1>11. /\ Preds(next2, p) = {r}
         /\ Preds(next2, t) = (Preds(next, t) \ {r}) \cup {p}
         /\ \A n \in D \ {t} : Preds(next2, n) = Preds(next, n)
    BY <1>1, <1>8, InsertedEdges
  <1>12. Agree(g2)
    <2> SUFFICES ASSUME NEW n \in D \cup {p} PROVE g2[n].parents = Preds(next2, n)
      BY <1>4 DEF Agree, next2
    <2>1. CASE n = p
      BY <1>11, <2>1 DEF Opens
    <2>2. CASE n = r
      BY <1>1, <1>3, <1>11, <2>2 DEF Agree, Opens, next
    <2>3. CASE n \in D \ {r}
      <3>1. g[n].parents = Preds(next, n)
        BY <1>1, <2>3 DEF Agree, next
      <3>2. g2[n].parents = IF n = t THEN (g[n].parents \ {r}) \cup {p} ELSE g[n].parents
        BY <2>3 DEF Opens, t
      <3> QED BY <1>11, <2>3, <3>1, <3>2
    <2> QED BY <2>1, <2>2, <2>3
  <1>13. Parted(g2)
    <2> SUFFICES ASSUME NEW i \in D \cup {p}, g2[i].type = "condition"
                 PROVE  NextNodes(g2, i) \cap Joins(next) = {} /\ IsInjective(g2[i].conditions)
      BY <1>4, <1>10 DEF Parted, next2
    <2>1. i # p
      BY DEF Opens
    <2>2. CASE i = r
      BY <1>1, <2>2 DEF Opens, Joins
    <2>3. CASE i \in D \ {r}
      BY <1>1, <2>3 DEF Opens, Parted, next
    <2> QED BY <2>1, <2>2, <2>3
  <1>14. Places(g2)
    <2> SUFFICES ASSUME NEW i \in D \cup {p}, g2[i].type = "placeholder", NEW m \in g2[i].parents
                 PROVE  g2[m].type = "condition"
      BY <1>4 DEF Places
    <2>1. CASE i = p
      BY <2>1 DEF Opens
    <2>2. CASE i \in D
      <3>1. i # r
        BY DEF Opens
      <3>2. g[i].type = "placeholder" /\ i # t
        BY <1>3, <2>2, <3>1 DEF Opens
      <3>3. m \in g[i].parents
        BY <2>2, <3>1, <3>2 DEF Opens, t
      <3>4. m \in D /\ g[m].type = "condition"
        BY <1>1, <2>2, <3>2, <3>3 DEF Places, Agree, Preds, next
      <3> QED BY <3>4 DEF Opens
    <2> QED BY <2>1, <2>2
  <1> QED BY <1>4, <1>5, <1>6, <1>9, <1>12, <1>13, <1>14 DEF Built, next2

(* replaceNodeByCondition keeps the flow.                                  *)
LEMMA PlaceOpened ==
  ASSUME Built(nodes), NEW r \in DOMAIN nodes, nodes[r].type = "placeholder",
         NEW p \in Fresh, NewKey(p), replaceNodeByCondition(r, p)
  PROVE  Built(nodes') /\ Drawn(nodes', edges')
  <1> DEFINE D == DOMAIN nodes
             t == nodes[r].next
             old == [n \in D |->
                      IF n = r THEN Node("condition", nodes[r].parents, None, <<p>>)
                      ELSE IF n = t THEN [nodes[n] EXCEPT !.parents = (@ \ {r}) \cup {p}]
                      ELSE nodes[n]]
             new == Put(p, Node("placeholder", {r}, t, << >>))
  <1>1. /\ D \subseteq Keys /\ (\A n \in D : nodes[n] \in NodeSet) /\ p \in Fresh \ D /\ p \in Keys
    BY KeysAre DEF Built, Typed, NewKey
  <1>2. nodes' = With(old, new) /\ edges' = calculateEdges(nodes')
    BY DEF replaceNodeByCondition, applyLayout
  <1>3. /\ << >> \in Seq(Keys \cup {None}) /\ <<p>> \in Seq(Keys \cup {None}) /\ {r} \in SUBSET Keys
        /\ nodes[r].parents \in SUBSET Keys /\ t \in Keys \cup {None} /\ "condition" \in Types /\ "placeholder" \in Types
        /\ None \in Keys \cup {None}
    BY <1>1 DEF NodeSet, Types
  <1>4. DOMAIN old = D /\ DOMAIN new = {p} /\ new[p] = Node("placeholder", {r}, t, << >>)
        /\ old[r] = Node("condition", nodes[r].parents, None, <<p>>)
    BY DEF Put
  <1>5. \A n \in D \ {r} : /\ old[n] \in NodeSet /\ old[n].type = nodes[n].type /\ old[n].next = nodes[n].next
                           /\ old[n].conditions = nodes[n].conditions
                           /\ old[n].parents = IF n = t THEN (nodes[n].parents \ {r}) \cup {p} ELSE nodes[n].parents
    <2> TAKE n \in D \ {r}
    <2>1. CASE n = t
      <3>1. old[n] = [nodes[n] EXCEPT !.parents = (nodes[n].parents \ {r}) \cup {p}]
        BY <2>1
      <3>2. nodes[n] \in NodeSet /\ (nodes[n].parents \ {r}) \cup {p} \in SUBSET Keys
        BY <1>1 DEF NodeSet
      <3> HIDE DEF old
      <3> QED BY <2>1, <3>1, <3>2 DEF NodeSet
    <2>2. CASE n # t
      BY <1>1, <2>2
    <2> QED BY <2>1, <2>2
  <1> HIDE DEF old, new
  <1>6. /\ DOMAIN nodes' = D \cup {p} /\ nodes' = [n \in DOMAIN nodes' |-> nodes'[n]]
        /\ \A n \in D : nodes'[n] = old[n]
        /\ nodes'[p] = Node("placeholder", {r}, t, << >>)
    BY <1>1, <1>2, <1>4 DEF With
  <1> HIDE DEF t
  <1>7. /\ nodes'[r] \in NodeSet /\ nodes'[r].type = "condition" /\ nodes'[r].parents = nodes[r].parents
        /\ nodes'[r].conditions = <<p>>
    <2>1. nodes'[r] = [type |-> "condition", parents |-> nodes[r].parents, next |-> None, conditions |-> <<p>>]
      BY <1>4, <1>6 DEF Node
    <2> QED BY <1>3, <2>1 DEF NodeSet
  <1>8. /\ nodes'[p] \in NodeSet /\ nodes'[p].type = "placeholder" /\ nodes'[p].parents = {r}
        /\ nodes'[p].next = t
    <2>1. nodes'[p] = [type |-> "placeholder", parents |-> {r}, next |-> t, conditions |-> << >>]
      BY <1>6 DEF Node
    <2> QED BY <1>3, <2>1 DEF NodeSet
  <1>9. ToSet(<<p>>) = {p} /\ IsInjective(<<p>>)
    BY DEF ToSet, IsInjective
  <1>10. Typed(nodes')
    <2>1. \A n \in DOMAIN nodes' : nodes'[n] \in NodeSet
      BY <1>5, <1>6, <1>7, <1>8
    <2> QED BY <1>1, <1>6, <2>1 DEF Typed
  <1>11. /\ NextNodes(nodes', r) = {p} /\ IsInjective(nodes'[r].conditions)
         /\ NextNodes(nodes', p) = {t}
    BY <1>7, <1>8, <1>9 DEF NextNodes
  <1>12. \A n \in D \ {r} :
           /\ nodes'[n].type = nodes[n].type
           /\ nodes'[n].parents = IF n = t THEN (nodes[n].parents \ {r}) \cup {p} ELSE nodes[n].parents
           /\ NextNodes(nodes', n) = NextNodes(nodes, n)
           /\ nodes'[n].conditions = nodes[n].conditions
    BY <1>5, <1>6 DEF NextNodes
  <1>13. Opens(nodes, r, p, nodes')
    BY <1>1, <1>6, <1>7, <1>8, <1>10, <1>11, <1>12 DEF Opens, t
  <1> QED BY <1>2, <1>10, <1>13, OpensBuilt, CalculatedEdges

(* The menu of an empty place keeps the flow.                              *)
LEMMA PlaceFilled ==
  ASSUME Built(nodes), NEW r \in DOMAIN nodes, NEW p \in Fresh, fillPlaceholder(r, p)
  PROVE  Built(nodes') /\ Drawn(nodes', edges')
  <1>1. nodes[r].type = "placeholder"
    BY DEF fillPlaceholder
  <1>2. CASE replaceNode(r, "approval")
    <2>1. /\ nodes' = [nodes EXCEPT ![r] = Node("approval", nodes[r].parents, nodes[r].next, << >>)]
          /\ edges' = calculateEdges(nodes')
      BY <1>2 DEF replaceNode, applyLayout
    <2>2. Built(nodes')
      BY <1>1, <2>1, RetypedBuilt
    <2> QED BY <2>1, <2>2, CalculatedEdges DEF Built
  <1>3. CASE NewKey(p) /\ replaceNodeByCondition(r, p)
    BY <1>1, <1>3, PlaceOpened
  <1> QED BY <1>2, <1>3 DEF fillPlaceholder

--------------------------------------------------------------------------------
(* Removal of a node (_deleteNode, smartRemoveNode).                       *)

(* No node leads both to a node and to the one behind it.                  *)
LEMMA NoShortcut ==
  ASSUME NEW g, Built(g), NEW r \in DOMAIN g, g[r].type # "condition", NEW c, Successors(g)[r] = {c}
  PROVE  Preds(Successors(g), r) \cap Preds(Successors(g), c) = {}
  <1> DEFINE next == Successors(g)
  <1>1. /\ Core(next) /\ Parted(g) /\ DOMAIN next = DOMAIN g
        /\ \A n \in DOMAIN g : next[n] = IF n = "end-node" THEN {} ELSE NextNodes(g, n)
    BY BuiltFacts DEF Built
  <1>2. SUFFICES ASSUME NEW m \in Preds(next, r), m \in Preds(next, c) PROVE FALSE
    OBVIOUS
  <1>3. m \in DOMAIN g /\ r \in next[m] /\ c \in next[m] /\ r \in Preds(next, c)
    BY <1>1, <1>2 DEF Preds
  <1>4. r # c /\ m # r
    BY <1>1, <1>3, EdgeFacts DEF Core, Layered
  <1>5. c \in Joins(next)
    <2>1. Several(Preds(next, c)) /\ c \in DOMAIN next
      BY <1>1, <1>2, <1>3, <1>4 DEF Several, Core
    <2> QED BY <2>1 DEF Joins
  <1>6. g[m].type = "condition" /\ c \in NextNodes(g, m)
    <2>1. r \in NextNodes(g, m) /\ c \in NextNodes(g, m)
      BY <1>1, <1>3
    <2>2. g[m].type # "condition" => r = g[m].next /\ c = g[m].next
      BY <2>1 DEF NextNodes
    <2> QED BY <1>4, <2>1, <2>2
  <1> QED BY <1>1, <1>3, <1>5, <1>6 DEF Parted

(* An approval r is taken out, and the nodes before it lead to c behind it.*)
Skips(g, r, c, g2) ==
  /\ r \in DOMAIN g /\ g[r].type = "approval" /\ c = g[r].next
  /\ \A k \in g[r].parents : g[k].type = "condition" => c \notin Joins(Successors(g))
  /\ Typed(g2) /\ DOMAIN g2 = DOMAIN g \ {r}
  /\ \A n \in DOMAIN g \ {r} :
       /\ g2[n].type = g[n].type
       /\ g2[n].parents = IF n = c THEN (g[c].parents \ {r}) \cup g[r].parents ELSE g[n].parents
       /\ NextNodes(g2, n) = IF n \in g[r].parents THEN (NextNodes(g, n) \ {r}) \cup {c} ELSE NextNodes(g, n)
       /\ g2[n].type = "condition" => IsInjective(g2[n].conditions)

(* A flow in which a node is skipped is built.                             *)
LEMMA SkipsBuilt ==
  ASSUME NEW g, Built(g), NEW r, NEW c, NEW g2, Skips(g, r, c, g2)
  PROVE  Built(g2)
  <1> DEFINE D == DOMAIN g
             P == g[r].parents
             next  == Successors(g)
             next2 == Successors(g2)
  <1>1. /\ Typed(g) /\ Ends(g) /\ Linked(g) /\ Agree(g) /\ Core(next) /\ Parted(g) /\ Places(g)
        /\ "form-node" \in D /\ "end-node" \in D /\ None \notin D /\ DOMAIN next = D
        /\ \A n \in D : next[n] = IF n = "end-node" THEN {} ELSE NextNodes(g, n)
        /\ r \in D /\ g[r].type = "approval"
    BY BuiltFacts DEF Built, Skips
  <1>2. r # "form-node" /\ r # "end-node"
    BY <1>1 DEF Ends
  <1>3. NextNodes(g, r) = {c} /\ next[r] = {c} /\ c \in D
    <2>1. NextNodes(g, r) = {c}
      BY <1>1 DEF NextNodes, Skips
    <2> QED BY <1>1, <1>2, <2>1 DEF Linked
  <1>4. Preds(next, r) \cap Preds(next, c) = {} /\ P = Preds(next, r)
    BY <1>1, <1>3, NoShortcut DEF Agree
  <1>5. c # r /\ g[c].type # "placeholder"
    <2>1. c # r
      BY <1>1, <1>3, EdgeFacts DEF Core, Layered
    <2>2. r \in g[c].parents
      BY <1>1, <1>3 DEF Agree, Preds
    <2> QED BY <1>1, <1>3, <2>1, <2>2 DEF Places
  <1>6. Typed(g2) /\ DOMAIN g2 = D \ {r}
    BY DEF Skips
  <1> HIDE DEF next, P
  <1>7. \A n \in D \ {r} :
          /\ g2[n].type = g[n].type
          /\ g2[n].parents = IF n = c THEN (g[c].parents \ {r}) \cup P ELSE g[n].parents
          /\ NextNodes(g2, n) = IF n \in P THEN (NextNodes(g, n) \ {r}) \cup {c} ELSE NextNodes(g, n)
          /\ g2[n].type = "condition" => IsInjective(g2[n].conditions)
    BY DEF Skips, P
  <1>8. Ends(g2)
    BY <1>1, <1>2, <1>6, <1>7 DEF Ends
  <1>9. \A n \in D : r \in NextNodes(g, n) /\ n # "end-node" => n \in P
    BY <1>1, <1>4 DEF Preds
  <1>10. "end-node" \notin P
    BY <1>1, <1>4 DEF Preds
  <1>11. Linked(g2)
    <2>1. NextNodes(g2, "end-node") = {None}
      BY <1>1, <1>2, <1>7, <1>10 DEF Linked
    <2>2. ASSUME NEW n \in D \ {r}, n # "end-node" PROVE NextNodes(g2, n) \subseteq D \ {r}
      <3>1. NextNodes(g, n) \subseteq D
        BY <1>1, <2>2 DEF Linked
      <3> QED BY <1>3, <1>5, <1>7, <1>9, <2>2, <3>1
    <2> QED BY <1>6, <2>1, <2>2 DEF Linked
  <1>12. /\ DOMAIN next2 = D \ {r}
         /\ \A n \in D \ {r} : next2[n] = IF n = "end-node" THEN {} ELSE NextNodes(g2, n)
    BY <1>6, <1>11, SuccessorsAre
  <1> HIDE DEF next2
  <1>13. \A n \in D : n \in P <=> r \in next[n]
    BY <1>1, <1>4 DEF Preds
  <1>14. TakesOut(next, r, c, next2)
    <2>1. \A n \in D \ {r} : next2[n] = IF r \in next[n] THEN (next[n] \ {r}) \cup {c} ELSE next[n]
      <3> TAKE n \in D \ {r}
      <3>1. CASE n = "end-node"
        BY <1>1, <1>12, <3>1
      <3>2. CASE n # "end-node"
        BY <1>1, <1>7, <1>12, <1>13, <3>2
      <3> QED BY <3>1, <3>2
    <2> QED BY <1>1, <1>3, <1>12, <2>1 DEF TakesOut
  <1>15. /\ Core(next2)
         /\ Joins(next2) = IF Several(Preds(next, r)) THEN (Joins(next) \ {r}) \cup {c} ELSE Joins(next)
         /\ Preds(next2, c) = (Preds(next, c) \ {r}) \cup Preds(next, r)
         /\ \A n \in D \ {r, c} : Preds(next2, n) = Preds(next, n)
    <2>1. r \in DOMAIN next \ {"form-node", "end-node"}
      BY <1>1, <1>2
    <2>2. Core(next) /\ Preds(next, r) \cap Preds(next, c) = {}
      BY <1>1, <1>4
    <2> QED BY <1>1, <1>14, <2>1, <2>2, DeletedCore
  <1>16. Agree(g2)
    <2> SUFFICES ASSUME NEW n \in D \ {r} PROVE g2[n].parents = Preds(next2, n)
      BY <1>6 DEF Agree, next2
    <2>1. g[n].parents = Preds(next, n)
      BY <1>1 DEF Agree, next
    <2> QED BY <1>4, <1>7, <1>15, <2>1
  <1>17. Parted(g2)
    <2> SUFFICES ASSUME NEW k \in D \ {r}, g[k].type = "condition"
                 PROVE  NextNodes(g2, k) \cap Joins(next2) = {}
      BY <1>6, <1>7 DEF Parted, next2
    <2>1. NextNodes(g, k) \cap Joins(next) = {} /\ k # "end-node"
      BY <1>1 DEF Parted, Ends, next
    <2>2. CASE k \in P
      <3>1. c \notin Joins(next)
        BY <2>2 DEF Skips, P, next
      <3>2. r \in next[k] /\ r \notin Joins(next)
        BY <1>1, <1>13, <2>1, <2>2
      <3>3. ~ Several(Preds(next, r))
        BY <1>1, <3>2 DEF Joins
      <3> QED BY <1>7, <1>15, <2>1, <2>2, <3>1, <3>3
    <2>3. CASE k \notin P
      <3>1. c \in NextNodes(g, k) => FALSE \/ c \in Joins(next)
        <4>1. ASSUME c \in NextNodes(g, k) PROVE c \in Joins(next)
          <5>1. k \in Preds(next, c) /\ r \in Preds(next, c) /\ k # r
            BY <1>1, <1>3, <2>1, <4>1 DEF Preds
          <5>2. Several(Preds(next, c))
            BY <5>1 DEF Several
          <5> QED BY <1>1, <1>3, <5>2 DEF Joins
        <4> QED BY <4>1
      <3> QED BY <1>7, <1>15, <2>1, <2>3, <3>1
    <2> QED BY <2>2, <2>3
  <1>18. Places(g2)
    <2> SUFFICES ASSUME NEW n \in D \ {r}, g2[n].type = "placeholder", NEW m \in g2[n].parents
                 PROVE  g2[m].type = "condition"
      BY <1>6 DEF Places
    <2>1. g[n].type = "placeholder" /\ n # c
      BY <1>5, <1>7
    <2>2. m \in g[n].parents
      BY <1>7, <2>1
    <2>3. m \in D /\ g[m].type = "condition"
      BY <1>1, <2>1, <2>2 DEF Places, Agree, Preds, next
    <2>4. m # r
      BY <1>1, <2>3
    <2> QED BY <1>7, <2>3, <2>4
  <1> QED BY <1>6, <1>8, <1>11, <1>15, <1>16, <1>17, <1>18 DEF Built, next2

--------------------------------------------------------------------------------
(* What _deleteNode writes.                                                *)
LEMMA DeletedIs ==
  ASSUME Built(nodes), NEW r \in DOMAIN nodes, nodes[r].type = "approval", _deleteNode(r)
  PROVE  /\ Typed(nodes') /\ DOMAIN nodes' = DOMAIN nodes \ {r} /\ edges' = calculateEdges(nodes')
         /\ \A n \in DOMAIN nodes \ {r} :
              /\ nodes'[n].type = nodes[n].type
              /\ nodes'[n].parents = IF n = nodes[r].next
                                     THEN (nodes[n].parents \ {r}) \cup nodes[r].parents ELSE nodes[n].parents
              /\ NextNodes(nodes', n) = IF n \in nodes[r].parents
                                        THEN (NextNodes(nodes, n) \ {r}) \cup {nodes[r].next} ELSE NextNodes(nodes, n)
              /\ nodes'[n].type = "condition" => IsInjective(nodes'[n].conditions)
  <1> DEFINE D == DOMAIN nodes
             P == nodes[r].parents
             c == nodes[r].next
             next == Successors(nodes)
  <1>1. /\ Agree(nodes) /\ Parted(nodes) /\ Core(next)
        /\ D \subseteq Keys /\ (\A n \in D : nodes[n] \in NodeSet) /\ DOMAIN next = D
        /\ \A n \in D : next[n] = IF n = "end-node" THEN {} ELSE NextNodes(nodes, n)
    BY BuiltFacts DEF Built, Typed
  <1>2. NextNodes(nodes, r) = {c} /\ next[r] = {c} /\ c \in D /\ c \in Keys
    <2>1. NextNodes(nodes, r) = {c}
      BY DEF NextNodes
    <2>2. r # "end-node"
      BY DEF Built, Ends
    <2> QED BY <1>1, <2>1, <2>2 DEF Built, Linked
  <1>3. /\ \A n \in D : n \in P <=> n # "end-node" /\ r \in NextNodes(nodes, n)
        /\ P \subseteq Keys
        /\ \A n \in P : c \notin NextNodes(nodes, n) /\ n # c
    <2>1. P = Preds(next, r)
      BY <1>1 DEF Agree
    <2>2. Preds(next, r) \cap Preds(next, c) = {}
      BY <1>2, NoShortcut
    <2>3. c \notin P
      BY <1>1, <1>2, <2>1, EdgeFacts DEF Core, Layered, Preds
    <2> QED BY <1>1, <2>1, <2>2, <2>3 DEF Preds
  <1>4. /\ nodes' = [n \in D \ {r} |->
                      IF n = c THEN [nodes[n] EXCEPT !.parents = (@ \ {r}) \cup P]
                      ELSE IF n \in P THEN Redirected(nodes[n], r, c)
                      ELSE nodes[n]]
        /\ edges' = calculateEdges(nodes')
    BY DEF _deleteNode, applyLayout
  <1> HIDE DEF c, P, next
  <1>5. ASSUME NEW n \in D \ {r}
        PROVE  /\ nodes'[n] \in NodeSet
               /\ nodes'[n].type = nodes[n].type
               /\ nodes'[n].parents = IF n = c THEN (nodes[n].parents \ {r}) \cup P ELSE nodes[n].parents
               /\ NextNodes(nodes', n) = IF n \in P THEN (NextNodes(nodes, n) \ {r}) \cup {c} ELSE NextNodes(nodes, n)
               /\ nodes'[n].type = "condition" => IsInjective(nodes'[n].conditions)
    <2>1. nodes[n].type = "condition" => IsInjective(nodes[n].conditions)
      BY <1>1 DEF Parted
    <2>2. CASE n = c
      <3>1. nodes'[n] = [nodes[n] EXCEPT !.parents = (nodes[n].parents \ {r}) \cup P] /\ n \notin P
        BY <1>3, <1>4, <2>2
      <3>2. nodes[n] \in NodeSet /\ (nodes[n].parents \ {r}) \cup P \in SUBSET Keys
        BY <1>1, <1>3 DEF NodeSet
      <3>3. /\ nodes'[n] \in NodeSet /\ nodes'[n].type = nodes[n].type
            /\ nodes'[n].parents = (nodes[n].parents \ {r}) \cup P
            /\ nodes'[n].next = nodes[n].next /\ nodes'[n].conditions = nodes[n].conditions
        BY <3>1, <3>2 DEF NodeSet
      <3> QED BY <2>1, <2>2, <3>1, <3>3 DEF NextNodes
    <2>3. CASE n # c /\ n \in P
      <3>1. nodes'[n] = Redirected(nodes[n], r, c)
        BY <1>4, <2>3
      <3>2. nodes[n] \in NodeSet /\ c \in Keys /\ r \in NextNodes(nodes, n) /\ c \notin NextNodes(nodes, n)
        BY <1>1, <1>2, <1>3, <2>3
      <3>3. /\ nodes'[n] \in NodeSet /\ nodes'[n].type = nodes[n].type
            /\ nodes'[n].parents = nodes[n].parents
        BY <3>1, <3>2, RedirectedIs
      <3>4. /\ NextNodes(nodes', n) = (NextNodes(nodes, n) \ {r}) \cup {c}
            /\ nodes[n].type = "condition" => IsInjective(nodes'[n].conditions)
        BY <2>1, <3>1, <3>2, RedirectedNext
      <3> QED BY <2>3, <3>3, <3>4
    <2>4. CASE n # c /\ n \notin P
      <3>1. nodes'[n] = nodes[n]
        BY <1>4, <2>4
      <3> QED BY <1>1, <2>1, <2>4, <3>1 DEF NextNodes
    <2> QED BY <2>2, <2>3, <2>4
  <1>6. DOMAIN nodes' = D \ {r} /\ nodes' = [n \in D \ {r} |-> nodes'[n]]
    BY <1>4
  <1>7. Typed(nodes')
    BY <1>1, <1>5, <1>6 DEF Typed
  <1> QED BY <1>4, <1>5, <1>6, <1>7 DEF c, P

(* _deleteNode keeps the flow, unless the node is all that its branch has. *)
LEMMA DeletedBuilt ==
  ASSUME Built(nodes), NEW r \in DOMAIN nodes, nodes[r].type = "approval", _deleteNode(r),
         \A k \in nodes[r].parents : nodes[k].type = "condition" => nodes[r].next \notin Joins(Successors(nodes))
  PROVE  Built(nodes')
  <1>1. Skips(nodes, r, nodes[r].next, nodes')
    BY DeletedIs DEF Skips
  <1> QED BY <1>1, SkipsBuilt

(* smartRemoveNode keeps the flow: it leaves an empty place where the node *)
(* is all that its branch has.                                             *)
LEMMA NodeRemoved ==
  ASSUME Built(nodes), NEW r \in DOMAIN nodes, smartRemoveNode(r)
  PROVE  /\ Typed(nodes') /\ Drawn(nodes', edges')
         /\ edges = calculateEdges(nodes) => Built(nodes')
  <1> DEFINE c == nodes[r].next
             branchEnds == c \in DOMAIN nodes /\ (nodes[c].type = "end" \/ Several(EdgesTo(c)))
             next == Successors(nodes)
  <1>1. /\ nodes[r].type = "approval"
        /\ Agree(nodes) /\ Parted(nodes) /\ Typed(nodes) /\ Linked(nodes) /\ Ends(nodes) /\ DOMAIN next = DOMAIN nodes
        /\ \A n \in DOMAIN nodes : next[n] = IF n = "end-node" THEN {} ELSE NextNodes(nodes, n)
    BY BuiltFacts DEF Built, smartRemoveNode
  <1>2. CASE UnderCondition(r) /\ branchEnds
    <2>1. /\ nodes' = [nodes EXCEPT ![r] = Node("placeholder", nodes[r].parents, nodes[r].next, << >>)]
          /\ edges' = calculateEdges(nodes')
      BY <1>2 DEF smartRemoveNode, replaceNode, applyLayout
    <2>2. \A m \in nodes[r].parents : nodes[m].type = "condition"
      <3>1. PICK k \in nodes[r].parents : nodes[k].type = "condition"
        BY <1>2 DEF UnderCondition
      <3>2. nodes[r].parents = Preds(next, r)
        BY <1>1 DEF Agree
      <3>3. k \in DOMAIN nodes /\ r \in NextNodes(nodes, k)
        BY <1>1, <3>1, <3>2 DEF Preds
      <3>4. r \notin Joins(next)
        BY <1>1, <3>1, <3>3 DEF Parted
      <3>5. ~ Several(Preds(next, r))
        BY <1>1, <3>4 DEF Joins
      <3> QED BY <3>1, <3>2, <3>5 DEF Several
    <2>3. Built(nodes')
      BY <1>1, <2>1, <2>2, RetypedBuilt
    <2> QED BY <2>1, <2>3, CalculatedEdges DEF Built
  <1>3. CASE ~ (UnderCondition(r) /\ branchEnds)
    <2>1. _deleteNode(r)
      BY <1>3 DEF smartRemoveNode
    <2>2. Typed(nodes') /\ edges' = calculateEdges(nodes')
      BY <1>1, <2>1, DeletedIs
    <2>3. ASSUME edges = calculateEdges(nodes) PROVE Built(nodes')
      <3>1. ASSUME NEW k \in nodes[r].parents, nodes[k].type = "condition", c \in Joins(next) PROVE FALSE
        <4>1. UnderCondition(r)
          BY <3>1 DEF UnderCondition
        <4>2. c \in DOMAIN nodes /\ ~ Several(EdgesTo(c)) /\ nodes[c].type # "end"
          BY <1>1, <1>3, <3>1, <4>1 DEF Joins
        <4>3. c # "end-node" /\ Several(Preds(next, c))
          BY <1>1, <3>1, <4>2 DEF Joins, Ends
        <4>4. PICK m1, m2 \in Preds(next, c) : m1 # m2
          BY <4>3 DEF Several
        <4>5. \A m \in {m1, m2} : \E i : <<m, i>> \in EdgesTo(c)
          <5> TAKE m \in {m1, m2}
          <5>1. m \in DOMAIN nodes /\ c \in next[m]
            BY <1>1, <4>4 DEF Preds
          <5>2. c \in {calculateEdges(nodes)[m][i] : i \in DOMAIN calculateEdges(nodes)[m]}
            BY <1>1, <5>1, EdgesAreSuccessors
          <5>3. PICK i \in DOMAIN edges[m] : edges[m][i] = c
            BY <2>3, <5>2
          <5>4. <<m, i>> \in EdgesTo(c)
            BY <5>1, <5>3 DEF EdgesTo
          <5> QED BY <5>4
        <4>6. PICK i1, i2 : <<m1, i1>> \in EdgesTo(c) /\ <<m2, i2>> \in EdgesTo(c)
          BY <4>5
        <4>7. <<m1, i1>> # <<m2, i2>>
          BY <4>4
        <4> QED BY <4>2, <4>6, <4>7 DEF Several
      <3> QED BY <1>1, <2>1, <3>1, DeletedBuilt
    <2> QED BY <2>2, <2>3, CalculatedEdges
  <1> QED BY <1>2, <1>3

--------------------------------------------------------------------------------
(* Removal of a condition with its branches (smartRemoveCondition).        *)

(* The branches of a condition come together in one node.                  *)
LEMMA OneJoin ==
  ASSUME Built(nodes), NEW rank, NEW J, Layers(Successors(nodes), Joins(Successors(nodes)), rank, J),
         NEW r \in DOMAIN nodes, NEW z, \A m \in Successors(nodes)[r] : J[m] = z, r # "end-node"
  PROVE  reconnectionTargets(r) = {z}
  <1> DEFINE D == DOMAIN nodes
             next == Successors(nodes)
             onward == [n \in D |-> IF IsShared(nodes, n) THEN {} ELSE next[n]]
             R == Reach(onward, next[r])
  <1>1. /\ DOMAIN next = D /\ (\A n \in D : next[n] \subseteq D)
        /\ (\A n \in D : IsShared(nodes, n) <=> n \in Joins(next))
        /\ next[r] # {} /\ (\A n \in D : n # "end-node" => next[n] # {})
        /\ IsFiniteSet(D)
    <2>1. IsFiniteSet(D)
      BY KeysAre, FS_Subset DEF Built, Typed
    <2> QED BY <2>1, BuiltFacts DEF Built, Core
  <1>2. reconnectionTargets(r) = {n \in R : IsShared(nodes, n)}
    BY DEF reconnectionTargets, SharedAhead
  <1>3. \A t \in reconnectionTargets(r) : t = z
    <2> TAKE t \in reconnectionTargets(r)
    <2>1. t \in SharedAhead(next, next[r])
      BY DEF reconnectionTargets
    <2>2. DOMAIN Successors(nodes) = DOMAIN nodes
      BY <1>1
    <2>3. t \in Joins(next) /\ \A m \in next[r] : J[m] = t
      BY <2>1, <2>2, AheadIsJoin
    <2> QED BY <1>1, <2>3
  <1>4. reconnectionTargets(r) # {}
    <2>1. next[r] \subseteq R /\ R \subseteq D
      <3>1. next[r] \subseteq DOMAIN onward
        BY <1>1
      <3> QED BY <3>1, ReachBegins
    <2>2. \A n \in R : \A m \in onward[n] : m \in R
      <3>1. \A n \in DOMAIN onward : onward[n] \subseteq DOMAIN onward
        BY <1>1
      <3> HIDE DEF onward
      <3> QED BY <3>1, ReachGoesOn
    <2> HIDE DEF R
    <2>3. \A n \in R : rank[n] \in Nat
      BY <1>1, <2>1 DEF Layers
    <2>4. PICK m \in R : \A n \in R : rank[n] <= rank[m]
      <3>1. R \in SUBSET D /\ R # {}
        BY <1>1, <2>1
      <3> QED BY <1>1, <2>3, <3>1, SomeIsLast
    <2>5. CASE IsShared(nodes, m)
      BY <1>2, <2>5
    <2>6. CASE ~ IsShared(nodes, m)
      <3>1. m \in D /\ m # "end-node"
        BY <1>1, <2>1, <2>6 DEF Joins
      <3>2. PICK l \in next[m] : TRUE
        BY <1>1, <3>1
      <3>3. l \in R
        BY <2>2, <2>6, <3>1
      <3>4. rank[m] < rank[l]
        BY <1>1, <3>1 DEF Layers
      <3> QED BY <2>3, <2>4, <3>3, <3>4
    <2> QED BY <2>5, <2>6
  <1> QED BY <1>3, <1>4

(* What is taken out with a node is a region.                              *)
LEMMA SubtreeIs ==
  ASSUME Built(nodes), NEW rank, NEW J, Layers(Successors(nodes), Joins(Successors(nodes)), rank, J),
         NEW r \in DOMAIN nodes \ {"form-node", "end-node"}, NEW z, \A m \in Successors(nodes)[r] : J[m] = z
  PROVE  Region(Successors(nodes), rank, J, r, z, Subtree(r))
  <1> DEFINE next == Successors(nodes)
             own == [n \in DOMAIN nodes |-> {m \in next[n] : ~ IsShared(nodes, m)}]
  <1>1. /\ DOMAIN next = DOMAIN nodes /\ Core(next)
        /\ \A n \in DOMAIN nodes : IsShared(nodes, n) <=> n \in Joins(next)
        /\ \A n \in DOMAIN nodes : next[n] \subseteq DOMAIN nodes
    BY BuiltFacts DEF Built, Core
  <1>2. Subtree(r) = Reach(own, {r})
    <2>1. nodes[r].type # "end"
      BY DEF Built, Ends
    <2> QED BY <2>1 DEF Subtree
  <1>3. DOMAIN own = DOMAIN next
    BY <1>1
  <1>4. \A n \in DOMAIN next : own[n] = {m \in next[n] : m \notin Joins(next)}
    BY <1>1
  <1> HIDE DEF own
  <1>5. r \in DOMAIN next \ {"form-node", "end-node"}
    BY <1>1
  <1>6. Region(next, rank, J, r, z, Reach(own, {r}))
    <2> HIDE DEF next
    <2>1. Layers(next, Joins(next), rank, J) /\ \A m \in next[r] : J[m] = z
      BY DEF next
    <2> QED BY <1>1, <1>3, <1>4, <1>5, <2>1, RegionIs
  <1> QED BY <1>2, <1>6

--------------------------------------------------------------------------------
(* A condition r goes with all its branches G: what led to it leads to z   *)
(* where they met or, if it was in a branch of another one, to an empty    *)
(* place in its stead.                                                     *)
Collapses(g, r, z, G, l, g2) ==
  LET P     == g[r].parents
      under == \E k \in P : g[k].type = "condition"
  IN  /\ r \in DOMAIN g /\ g[r].type = "condition"
      /\ IF under THEN l \in Fresh \ DOMAIN g ELSE l = z
      /\ Typed(g2) /\ DOMAIN g2 = (DOMAIN g \ G) \cup {l}
      /\ \A n \in DOMAIN g \ G :
           /\ g2[n].type = g[n].type
           /\ g2[n].parents = IF n = z
                              THEN IF under THEN ((g[z].parents \ G) \cup {l}) \ P ELSE (g[z].parents \ G) \cup P
                              ELSE g[n].parents
           /\ NextNodes(g2, n) = IF n \in P THEN (NextNodes(g, n) \ {r}) \cup {l} ELSE NextNodes(g, n)
           /\ g2[n].type = "condition" => IsInjective(g2[n].conditions)
      /\ under => g2[l].type = "placeholder" /\ g2[l].parents = P /\ NextNodes(g2, l) = {z}

(* A flow in which a condition with its branches is replaced by a link, or *)
(* by an empty place, is built.                                            *)
LEMMA CollapsesBuilt ==
  ASSUME NEW g, Built(g), NEW rank, NEW J, Layers(Successors(g), Joins(Successors(g)), rank, J),
         NEW r, NEW z, NEW G, Region(Successors(g), rank, J, r, z, G),
         NEW l, NEW g2, Collapses(g, r, z, G, l, g2)
  PROVE  Built(g2)
  <1> DEFINE D == DOMAIN g
             P == g[r].parents
             under == \E k \in P : g[k].type = "condition"
             next  == Successors(g)
             next1 == [n \in D \ G |-> IF n \in P THEN (next[n] \ {r}) \cup {z} ELSE next[n]]
             next2 == Successors(g2)
  <1>1. /\ Typed(g) /\ Ends(g) /\ Linked(g) /\ Agree(g) /\ Core(next) /\ Parted(g) /\ Places(g)
        /\ "form-node" \in D /\ "end-node" \in D /\ None \notin D /\ DOMAIN next = D
        /\ \A n \in D : next[n] = IF n = "end-node" THEN {} ELSE NextNodes(g, n)
        /\ r \in D /\ g[r].type = "condition"
    BY BuiltFacts DEF Built, Collapses
  <1>2. /\ G \subseteq D /\ r \in G /\ z \in D \ G /\ z \in Joins(next)
        /\ "form-node" \notin G /\ "end-node" \notin G
        /\ g[z].type # "placeholder"
    <2>1. z \in D \ G /\ z \in Joins(next)
      BY <1>1 DEF Region, Joins
    <2>2. g[z].type # "placeholder"
      BY <2>1, PlacesApart
    <2> QED BY <1>1, <2>1, <2>2 DEF Region
  <1>3. P = Preds(next, r) /\ P # {} /\ P \subseteq D /\ "end-node" \notin P
    <2>1. P = Preds(next, r)
      BY <1>1 DEF Agree
    <2> QED BY <1>1, <1>2, <2>1 DEF Core, Preds
  <1>4. Layers(next, Joins(next), rank, J) /\ Region(next, rank, J, r, z, G)
    OBVIOUS
  <1>5. P \cap G = {}
    <2> SUFFICES ASSUME NEW m \in P, m \in G PROVE FALSE
      OBVIOUS
    <2>1. m \in D /\ r \in next[m]
      BY <1>3 DEF Preds
    <2>2. rank[m] < rank[r] /\ rank[m] \in Nat /\ rank[r] \in Nat
      BY <1>1, <1>4, <2>1, EdgeFacts
    <2> QED BY <1>4, <2>2 DEF Region
  <1>6. ASSUME under
        PROVE  \E k \in P : P = {k} /\ g[k].type = "condition" /\ z \notin next[k]
    <2>1. PICK k \in P : g[k].type = "condition"
      BY <1>6
    <2>2. k \in D /\ r \in NextNodes(g, k)
      BY <1>1, <1>3 DEF Preds
    <2>3. r \notin Joins(next) /\ z \notin NextNodes(g, k)
      BY <1>1, <1>2, <2>1, <2>2 DEF Parted
    <2>4. ~ Several(P)
      BY <1>1, <1>3, <2>3 DEF Joins
    <2>5. P = {k}
      BY <2>4 DEF Several
    <2> QED BY <1>1, <2>1, <2>2, <2>3, <2>5
  <1> HIDE DEF next, P, under
  <1>7. \A n \in D \ G : n \notin P => next[n] \cap G = {}
    <2> SUFFICES ASSUME NEW n \in D \ G, NEW m \in next[n] \cap G PROVE n \in P
      OBVIOUS
    <2>1. m = r
      BY <1>1, <1>4 DEF Region
    <2> QED BY <1>1, <1>3, <2>1 DEF Preds
  <1>8. \A n \in P : n \in D \ G /\ r \in next[n] /\ next[n] \cap G = {r}
    <2> TAKE n \in P
    <2>1. n \in D \ G /\ r \in next[n]
      BY <1>1, <1>3, <1>5 DEF Preds
    <2> QED BY <1>1, <1>2, <1>4, <2>1 DEF Region
  <1>9. Prunes(next, r, z, G, next1)
    <2>1. \A n \in D \ G : /\ next[n] \ {r} \subseteq next1[n]
                           /\ next1[n] \subseteq (next[n] \ {r}) \cup (IF r \in next[n] THEN {z} ELSE {})
                           /\ next1[n] = {} => n = "end-node"
      <3> TAKE n \in D \ G
      <3>1. n \in P <=> r \in next[n]
        BY <1>1, <1>3 DEF Preds
      <3>2. next[n] = {} => n = "end-node"
        BY <1>1 DEF Core
      <3> QED BY <3>1, <3>2
    <2>2. Preds(next1, z) # {}
      <3>1. PICK n \in P : TRUE
        BY <1>3
      <3>2. n \in Preds(next1, z)
        BY <1>8, <3>1 DEF Preds
      <3> QED BY <3>2
    <2>3. DOMAIN next1 = DOMAIN next \ G
      BY <1>1
    <2> HIDE DEF next1
    <2> QED BY <1>1, <2>1, <2>2, <2>3 DEF Prunes
  <1>10. /\ Core(next1) /\ Joins(next1) \subseteq Joins(next) \ G
         /\ Preds(next1, z) = (Preds(next, z) \ G) \cup P
         /\ \A n \in (D \ G) \ {z} : Preds(next1, n) = Preds(next, n)
    <2>1. DOMAIN next1 = D \ G /\ \A n \in P : n \in DOMAIN next1 /\ z \in next1[n]
      BY <1>8
    <2> HIDE DEF next1
    <2>2. /\ Core(next1) /\ Joins(next1) \subseteq Joins(next) \ G
          /\ Preds(next1, z) \subseteq (Preds(next, z) \ G) \cup Preds(next, r)
          /\ Preds(next, z) \ G \subseteq Preds(next1, z)
          /\ \A n \in DOMAIN next1 \ {z} : Preds(next1, n) = Preds(next, n)
      BY <1>1, <1>4, <1>9, PrunedCore
    <2>3. P \subseteq Preds(next1, z)
      BY <2>1 DEF Preds
    <2> QED BY <1>3, <2>1, <2>2, <2>3
  <1>11. /\ IF under THEN l \in Fresh \ D ELSE l = z
         /\ Typed(g2) /\ DOMAIN g2 = (D \ G) \cup {l}
         /\ \A n \in D \ G :
              /\ g2[n].type = g[n].type
              /\ g2[n].parents = IF n = z
                                 THEN IF under THEN ((g[z].parents \ G) \cup {l}) \ P ELSE (g[z].parents \ G) \cup P
                                 ELSE g[n].parents
              /\ NextNodes(g2, n) = IF n \in P THEN (NextNodes(g, n) \ {r}) \cup {l} ELSE NextNodes(g, n)
              /\ g2[n].type = "condition" => IsInjective(g2[n].conditions)
         /\ under => g2[l].type = "placeholder" /\ g2[l].parents = P /\ NextNodes(g2, l) = {z}
    BY DEF Collapses, P, under
  <1>12. under => l \notin D /\ l # "end-node" /\ l # "form-node"
    BY <1>1, <1>11
  <1>13. Ends(g2)
    <2> SUFFICES ASSUME NEW n \in (D \ G) \cup {l}
                 PROVE  (g2[n].type = "form" <=> n = "form-node") /\ (g2[n].type = "end" <=> n = "end-node")
      BY <1>11 DEF Ends
    <2>1. CASE n \in D \ G
      BY <1>1, <1>11, <2>1 DEF Ends
    <2>2. CASE n \notin D \ G
      <3>1. under /\ n = l
        BY <1>2, <1>11, <2>2
      <3> QED BY <1>11, <1>12, <3>1
    <2> QED BY <2>1, <2>2
  <1>14. Linked(g2)
    <2>1. NextNodes(g2, "end-node") = {None}
      BY <1>1, <1>2, <1>3, <1>11 DEF Linked
    <2>2. ASSUME NEW n \in (D \ G) \cup {l}, n # "end-node" PROVE NextNodes(g2, n) \subseteq (D \ G) \cup {l}
      <3>1. CASE n \in D \ G
        <4>1. NextNodes(g, n) \subseteq D /\ next[n] = NextNodes(g, n)
          BY <1>1, <2>2, <3>1 DEF Linked
        <4>2. CASE n \in P
          BY <1>8, <1>11, <4>1, <4>2
        <4>3. CASE n \notin P
          BY <1>7, <1>11, <3>1, <4>1, <4>3
        <4> QED BY <4>2, <4>3
      <3>2. CASE n \notin D \ G
        <4>1. under /\ n = l
          BY <1>2, <1>11, <2>2, <3>2
        <4> QED BY <1>2, <1>11, <4>1
      <3> QED BY <3>1, <3>2
    <2> QED BY <1>11, <2>1, <2>2 DEF Linked
  <1>15. /\ DOMAIN next2 = (D \ G) \cup {l}
         /\ \A n \in (D \ G) \cup {l} : next2[n] = IF n = "end-node" THEN {} ELSE NextNodes(g2, n)
    BY <1>11, <1>14, SuccessorsAre
  <1>16. next2 = [n \in DOMAIN next2 |-> next2[n]]
    BY DEF Successors
  <1> HIDE DEF next2
  <1>17. \A n \in D \ G : next2[n] = IF n \in P THEN (next[n] \ {r}) \cup {l} ELSE next[n]
    <2> TAKE n \in D \ G
    <2>1. CASE n = "end-node"
      BY <1>1, <1>3, <1>15, <2>1
    <2>2. CASE n # "end-node"
      <3>1. NextNodes(g2, n) = IF n \in P THEN (NextNodes(g, n) \ {r}) \cup {l} ELSE NextNodes(g, n)
        BY <1>11
      <3> QED BY <1>1, <1>15, <2>2, <3>1
    <2> QED BY <2>1, <2>2
  <1>18. /\ Core(next2) /\ Joins(next2) \subseteq Joins(next)
         /\ Preds(next2, z) = IF under THEN ((Preds(next, z) \ G) \ P) \cup {l} ELSE (Preds(next, z) \ G) \cup P
         /\ \A n \in (D \ G) \ {z} : Preds(next2, n) = Preds(next, n)
         /\ under => Preds(next2, l) = P
    <2>1. CASE ~ under
      <3>1. l = z /\ DOMAIN next2 = D \ G
        BY <1>2, <1>11, <1>15, <2>1
      <3>2. next2 = next1
        BY <1>16, <1>17, <3>1
      <3> QED BY <1>10, <2>1, <3>2
    <2>2. CASE under
      <3>1. PICK k \in P : P = {k} /\ z \notin next[k]
        BY <1>6, <2>2 DEF under
      <3>2. DOMAIN next1 = D \ G /\ DOMAIN next2 = (D \ G) \cup {l} /\ l \notin D
        BY <1>12, <1>15, <2>2
      <3>3. next2[l] = {z}
        BY <1>11, <1>12, <1>15, <2>2
      <3>4. \A n \in D \ G : next2[n] = IF n \in P THEN (next1[n] \ {z}) \cup {l} ELSE next1[n]
        <4> TAKE n \in D \ G
        <4>1. CASE n \in P
          BY <1>17, <3>1, <4>1
        <4>2. CASE n \notin P
          BY <1>17, <4>2
        <4> QED BY <4>1, <4>2
      <3> HIDE DEF next1
      <3>5. P \subseteq Preds(next1, z) /\ ~ Several(P) /\ P # {}
        BY <1>10, <3>1 DEF Several
      <3>6. Inserts(next1, l, z, P, next2)
        BY <1>2, <3>2, <3>3, <3>4, <3>5 DEF Inserts
      <3>7. Core(next2)
        BY <1>10, <3>5, <3>6, InsertedCore
      <3>8. Joins(next2) = Joins(next1)
        BY <1>10, <3>5, <3>6, InsertedJoins
      <3>9. /\ Preds(next2, l) = P
            /\ Preds(next2, z) = (Preds(next1, z) \ P) \cup {l}
            /\ \A n \in DOMAIN next1 \ {z} : Preds(next2, n) = Preds(next1, n)
        BY <1>10, <3>6, InsertedEdges
      <3>10. Preds(next2, z) = ((Preds(next, z) \ G) \ P) \cup {l}
        BY <1>10, <3>9
      <3> QED BY <1>10, <2>2, <3>2, <3>7, <3>8, <3>9, <3>10
    <2> QED BY <2>1, <2>2
  <1> HIDE DEF next1
  <1>19. Agree(g2)
    <2> SUFFICES ASSUME NEW n \in (D \ G) \cup {l} PROVE g2[n].parents = Preds(next2, n)
      BY <1>11 DEF Agree, next2
    <2>1. CASE n \in D \ G
      <3>1. g[n].parents = Preds(next, n)
        BY <1>1, <2>1 DEF Agree, next
      <3>2. CASE n # z
        BY <1>11, <1>18, <2>1, <3>1, <3>2
      <3>3. CASE n = z /\ ~ under
        BY <1>11, <1>18, <2>1, <3>1, <3>3
      <3>4. CASE n = z /\ under
        <4>1. g2[n].parents = ((Preds(next, z) \ G) \cup {l}) \ P
          BY <1>11, <2>1, <3>1, <3>4
        <4>2. l \notin P
          BY <1>3, <1>12, <3>4
        <4> QED BY <1>18, <3>4, <4>1, <4>2
      <3> QED BY <3>2, <3>3, <3>4
    <2>2. CASE n \notin D \ G
      <3>1. under /\ n = l
        BY <1>2, <1>11, <2>2
      <3> QED BY <1>11, <1>18, <3>1
    <2> QED BY <2>1, <2>2
  <1>20. Parted(g2)
    <2> SUFFICES ASSUME NEW n \in (D \ G) \cup {l}, g2[n].type = "condition"
                 PROVE  NextNodes(g2, n) \cap Joins(next) = {} /\ IsInjective(g2[n].conditions)
      BY <1>11, <1>18 DEF Parted, next2
    <2>1. n \in D \ G
      BY <1>2, <1>11
    <2>2. g[n].type = "condition"
      BY <1>11, <2>1
    <2>3. NextNodes(g, n) \cap Joins(next) = {}
      BY <1>1, <2>1, <2>2 DEF Parted, next
    <2>4. CASE n \in P
      <3>1. under
        BY <2>2, <2>4 DEF under
      <3>2. l \notin Joins(next)
        BY <1>1, <1>12, <3>1 DEF Joins
      <3> QED BY <1>11, <2>1, <2>3, <2>4, <3>2
    <2>5. CASE n \notin P
      BY <1>11, <2>1, <2>3, <2>5
    <2> QED BY <2>4, <2>5
  <1>21. Places(g2)
    <2> SUFFICES ASSUME NEW n \in (D \ G) \cup {l}, g2[n].type = "placeholder", NEW m \in g2[n].parents
                 PROVE  g2[m].type = "condition"
      BY <1>11 DEF Places
    <2>1. CASE n \in D \ G
      <3>1. g[n].type = "placeholder" /\ n # z
        BY <1>2, <1>11, <2>1
      <3>2. m \in g[n].parents
        BY <1>11, <2>1, <3>1
      <3>3. g[m].type = "condition"
        BY <1>1, <2>1, <3>1, <3>2 DEF Places
      <3>4. m \in D \ G
        <4>1. m \in D /\ n \in next[m]
          BY <1>1, <2>1, <3>2 DEF Agree, Preds, next
        <4>2. m \notin G
          BY <1>4, <2>1, <3>1, <4>1 DEF Region
        <4> QED BY <4>1, <4>2
      <3> QED BY <1>11, <3>3, <3>4
    <2>2. CASE n \notin D \ G
      <3>1. under /\ m \in P
        BY <1>2, <1>11, <2>2
      <3>2. g[m].type = "condition" /\ m \in D \ G
        BY <1>6, <1>8, <3>1 DEF under
      <3> QED BY <1>11, <3>2
    <2> QED BY <2>1, <2>2
  <1> QED BY <1>11, <1>13, <1>14, <1>18, <1>19, <1>20, <1>21 DEF Built, next2

--------------------------------------------------------------------------------
(* What deleteSubtree leaves of the other nodes.                           *)

(* What is left of the other nodes when some are gone.                     *)
PrunedTo(n, gone, node) ==
  /\ node \in NodeSet /\ node.type = nodes[n].type /\ node.parents = nodes[n].parents \ gone
  /\ node.next = IF nodes[n].next \in gone /\ nodes[n].type # "condition" THEN None ELSE nodes[n].next
  /\ node.conditions = [i \in DOMAIN nodes[n].conditions |->
                         IF nodes[n].conditions[i] \in gone THEN None ELSE nodes[n].conditions[i]]

(* What deleteSubtree writes of a node that stays ...                      *)
LEMMA PrunedIs ==
  ASSUME Typed(nodes), NEW gone, NEW n \in DOMAIN nodes \ gone
  PROVE  PrunedTo(n, gone, Pruned(gone)[n])
  <1> DEFINE ends == [i \in DOMAIN nodes[n].conditions |->
                       IF nodes[n].conditions[i] \in gone THEN None ELSE nodes[n].conditions[i]]
             next == IF nodes[n].next \in gone /\ nodes[n].type # "condition" THEN None ELSE nodes[n].next
  <1>1. nodes[n] \in NodeSet
    BY DEF Typed
  <1>2. ends \in Seq(Keys \cup {None})
    BY <1>1 DEF NodeSet
  <1>3. next \in Keys \cup {None} /\ nodes[n].parents \ gone \in SUBSET Keys
    BY <1>1 DEF NodeSet
  <1>4. Pruned(gone)[n] = [nodes[n] EXCEPT !.parents = nodes[n].parents \ gone, !.next = next, !.conditions = ends]
    BY DEF Pruned
  <1>5. PrunedTo(n, gone, Pruned(gone)[n]) <=>
          /\ Pruned(gone)[n] \in NodeSet /\ Pruned(gone)[n].type = nodes[n].type
          /\ Pruned(gone)[n].parents = nodes[n].parents \ gone
          /\ Pruned(gone)[n].next = next /\ Pruned(gone)[n].conditions = ends
    BY DEF PrunedTo
  <1> HIDE DEF ends, next
  <1> QED BY <1>1, <1>2, <1>3, <1>4, <1>5 DEF NodeSet

(* ... of one that did not lead into what is gone ...                      *)
LEMMA PrunedKeeps ==
  ASSUME Typed(nodes), NEW gone, NEW n \in DOMAIN nodes \ gone, NextNodes(nodes, n) \cap gone = {},
         NEW node, PrunedTo(n, gone, node)
  PROVE  /\ node.type # "condition" => node.next = nodes[n].next
         /\ node.type = "condition" => node.conditions = nodes[n].conditions
  <1>1. nodes[n] \in NodeSet
    BY DEF Typed
  <1>2. CASE nodes[n].type # "condition"
    BY <1>2 DEF PrunedTo, NextNodes
  <1>3. CASE nodes[n].type = "condition"
    <2>1. nodes[n].conditions \in Seq(Keys \cup {None})
      BY <1>1 DEF NodeSet
    <2>2. \A i \in DOMAIN nodes[n].conditions : nodes[n].conditions[i] \notin gone
      BY <1>3 DEF NextNodes, ToSet
    <2>3. node.conditions = [i \in DOMAIN nodes[n].conditions |-> nodes[n].conditions[i]]
      BY <2>2 DEF PrunedTo
    <2>4. node.conditions = nodes[n].conditions
      BY <2>1, <2>3
    <2> QED BY <1>3, <2>4 DEF PrunedTo
  <1> QED BY <1>2, <1>3

(* ... and of one that did.                                                *)
LEMMA PrunedOpens ==
  ASSUME Typed(nodes), NEW gone, NEW n \in DOMAIN nodes \ gone, NEW r, NextNodes(nodes, n) \cap gone = {r},
         NEW node, PrunedTo(n, gone, node)
  PROVE  /\ node.type # "condition" => node.next = None
         /\ node.type = "condition" => node.conditions = Relinked(nodes[n].conditions, r, None)
  <1>1. CASE nodes[n].type # "condition"
    BY <1>1 DEF PrunedTo, NextNodes
  <1>2. CASE nodes[n].type = "condition"
    <2>1. \A i \in DOMAIN nodes[n].conditions : nodes[n].conditions[i] \in gone <=> nodes[n].conditions[i] = r
      BY <1>2 DEF NextNodes, ToSet
    <2> QED BY <1>2, <2>1 DEF PrunedTo, Relinked
  <1> QED BY <1>1, <1>2

--------------------------------------------------------------------------------
(* What smartRemoveCondition writes.                                       *)
LEMMA CollapsedIs ==
  ASSUME Built(nodes), NEW rank, NEW J, Layers(Successors(nodes), Joins(Successors(nodes)), rank, J),
         NEW r \in DOMAIN nodes, NEW z, reconnectionTargets(r) = {z},
         Region(Successors(nodes), rank, J, r, z, Subtree(r)),
         NEW p \in Fresh, smartRemoveCondition(r, p)
  PROVE  /\ Collapses(nodes, r, z, Subtree(r), IF UnderCondition(r) THEN p ELSE z, nodes')
         /\ edges' = calculateEdges(nodes')
  <1> DEFINE D == DOMAIN nodes
             P == nodes[r].parents
             G == Subtree(r)
             under == UnderCondition(r)
             l == IF under THEN p ELSE z
             next == Successors(nodes)
             pruned == Pruned(G)
             Rejoined(node) ==
               IF node.type = "condition" THEN [node EXCEPT !.conditions = Relinked(@, None, l)]
               ELSE IF node.next = None THEN [node EXCEPT !.next = l] ELSE node
             NewParents(S) == IF under THEN (S \cup {p}) \ P ELSE S \cup P
             old == [n \in DOMAIN pruned |->
                      IF n \in P THEN Rejoined(pruned[n])
                      ELSE IF n = z THEN [pruned[n] EXCEPT !.parents = NewParents(@)]
                      ELSE pruned[n]]
             new == IF under THEN Put(p, Node("placeholder", P, z, << >>)) ELSE << >>
  <1>1. /\ Typed(nodes) /\ Linked(nodes) /\ Agree(nodes) /\ Parted(nodes) /\ Core(next)
        /\ D \subseteq Keys /\ None \notin D /\ None \notin Keys /\ DOMAIN next = D
        /\ \A n \in D : nodes[n] \in NodeSet
        /\ \A n \in D : next[n] = IF n = "end-node" THEN {} ELSE NextNodes(nodes, n)
        /\ NextNodes(nodes, "end-node") = {None}
    BY BuiltFacts, KeysAre DEF Built, Typed, Linked
  <1>2. /\ nodes[r].type = "condition"
        /\ under => p \in Fresh \ D
        /\ nodes' = With(old, new) /\ edges' = calculateEdges(nodes')
    BY DEF smartRemoveCondition, applyLayout, NewKey
  <1>3. z \in D \ G /\ r \in G /\ G \subseteq D
    BY <1>1 DEF Region, Joins
  <1>4. l \in Keys /\ P \subseteq D /\ P \subseteq Keys
    BY <1>1, <1>2, <1>3, KeysAre DEF Agree, Preds
  <1>5. \A n \in D \ G : PrunedTo(n, G, pruned[n])
    BY <1>1, PrunedIs
  <1>6. /\ \A n \in D \ G : n \notin P => NextNodes(nodes, n) \cap G = {}
        /\ \A n \in D \ G : n \in P => NextNodes(nodes, n) \cap G = {r} /\ n # "end-node"
    <2> SUFFICES ASSUME NEW n \in D \ G
                 PROVE  /\ n \notin P => NextNodes(nodes, n) \cap G = {}
                        /\ n \in P => NextNodes(nodes, n) \cap G = {r} /\ n # "end-node"
      OBVIOUS
    <2>1. n \in P <=> r \in next[n]
      BY <1>1 DEF Agree, Preds
    <2>2. next[n] \cap G \subseteq {r}
      BY <1>1 DEF Region
    <2>3. CASE n = "end-node"
      BY <1>1, <1>3, <2>1, <2>3
    <2>4. CASE n # "end-node"
      BY <1>1, <1>3, <2>1, <2>2, <2>4
    <2> QED BY <2>3, <2>4
  <1>7. z \notin P
    <2>1. PICK m \in next[r] : TRUE
      BY <1>1, <1>2 DEF Built, Ends, Core
    <2>2. J[m] = z /\ J[z] = z /\ m \in D /\ rank[r] < rank[m] /\ (\A n \in D : rank[n] \in Nat) /\ z \in D
      BY <1>1, <1>3, <2>1 DEF Layers, Region
    <2>3. rank[m] <= rank[z]
      BY <1>1, <2>2 DEF Layers
    <2>4. ASSUME z \in P PROVE rank[z] < rank[r]
      <3>1. r \in next[z]
        BY <1>1, <2>4 DEF Agree, Preds
      <3> QED BY <1>1, <2>2, <3>1, EdgeFacts
    <2> QED BY <2>2, <2>3, <2>4
  <1> HIDE DEF G, pruned, P, under, l, next
  <1>8. DOMAIN old = D \ G /\ DOMAIN new = IF under THEN {p} ELSE {}
    <2>1. DOMAIN pruned = D \ G
      BY DEF pruned, Pruned
    <2>2. DOMAIN << >> = {}
      OBVIOUS
    <2> QED BY <2>1, <2>2 DEF Put
  <1>9. ASSUME NEW n \in D \ G
        PROVE  /\ old[n] \in NodeSet
               /\ old[n].type = nodes[n].type
               /\ old[n].parents = IF n = z
                                   THEN IF under THEN ((nodes[z].parents \ G) \cup {l}) \ P
                                        ELSE (nodes[z].parents \ G) \cup P
                                   ELSE nodes[n].parents \ G
               /\ n \notin P => /\ nodes[n].type # "condition" => old[n].next = nodes[n].next
                                /\ nodes[n].type = "condition" => old[n].conditions = nodes[n].conditions
               /\ n \in P => /\ nodes[n].type # "condition" => old[n].next = l
                             /\ nodes[n].type = "condition" =>
                                  old[n].conditions = Relinked(Relinked(nodes[n].conditions, r, None), None, l)
    <2>1. PrunedTo(n, G, pruned[n])
      BY <1>5
    <2>2. /\ pruned[n] \in NodeSet /\ pruned[n].type = nodes[n].type /\ pruned[n].parents = nodes[n].parents \ G
      BY <2>1 DEF PrunedTo
    <2>3. CASE n \in P
      <3>1. old[n] = Rejoined(pruned[n]) /\ n # z
        BY <1>7, <1>8, <2>3
      <3>2. NextNodes(nodes, n) \cap G = {r}
        BY <1>6, <2>3
      <3>3. /\ pruned[n].type # "condition" => pruned[n].next = None
            /\ pruned[n].type = "condition" => pruned[n].conditions = Relinked(nodes[n].conditions, r, None)
        BY <1>1, <2>1, <3>2, PrunedOpens
      <3>4. CASE nodes[n].type = "condition"
        <4>1. old[n] = [pruned[n] EXCEPT !.conditions = Relinked(pruned[n].conditions, None, l)]
          BY <2>2, <3>1, <3>4
        <4>2. Relinked(pruned[n].conditions, None, l) \in Seq(Keys \cup {None})
          <5>1. pruned[n].conditions \in Seq(Keys \cup {None})
            BY <2>2 DEF NodeSet
          <5> QED BY <1>4, <5>1, RelinkedIs
        <4> HIDE DEF old
        <4>3. old[n] \in NodeSet /\ old[n].type = pruned[n].type /\ old[n].parents = pruned[n].parents
              /\ old[n].conditions = Relinked(pruned[n].conditions, None, l)
          BY <2>2, <4>1, <4>2 DEF NodeSet
        <4> QED BY <2>2, <2>3, <3>1, <3>3, <3>4, <4>3
      <3>5. CASE nodes[n].type # "condition"
        <4>1. old[n] = [pruned[n] EXCEPT !.next = l]
          BY <2>2, <3>1, <3>3, <3>5
        <4> HIDE DEF old
        <4>2. old[n] \in NodeSet /\ old[n].type = pruned[n].type /\ old[n].parents = pruned[n].parents
              /\ old[n].next = l
          BY <1>4, <2>2, <4>1 DEF NodeSet
        <4> QED BY <2>2, <2>3, <3>1, <3>5, <4>2
      <3> QED BY <3>4, <3>5
    <2>4. CASE n \notin P
      <3>1. NextNodes(nodes, n) \cap G = {}
        BY <1>6, <2>4
      <3>2. /\ pruned[n].type # "condition" => pruned[n].next = nodes[n].next
            /\ pruned[n].type = "condition" => pruned[n].conditions = nodes[n].conditions
        BY <1>1, <2>1, <3>1, PrunedKeeps
      <3>3. CASE n = z
        <4> DEFINE new1 == NewParents(pruned[n].parents)
        <4>1. old[n] = [pruned[n] EXCEPT !.parents = new1]
          BY <1>8, <2>4, <3>3
        <4>2. new1 = IF under THEN ((nodes[z].parents \ G) \cup {l}) \ P ELSE (nodes[z].parents \ G) \cup P
          BY <2>2, <3>3 DEF l
        <4> HIDE DEF old, new1
        <4>3. nodes[z].parents \in SUBSET Keys
          BY <1>1, <1>3 DEF NodeSet
        <4>4. new1 \in SUBSET Keys
          BY <1>4, <4>2, <4>3
        <4>5. old[n] \in NodeSet /\ old[n].type = pruned[n].type /\ old[n].parents = new1
              /\ old[n].next = pruned[n].next /\ old[n].conditions = pruned[n].conditions
          BY <2>2, <4>1, <4>4 DEF NodeSet
        <4> QED BY <2>2, <2>4, <3>2, <3>3, <4>2, <4>5
      <3>4. CASE n # z
        <4>1. old[n] = pruned[n]
          BY <1>8, <2>4, <3>4
        <4> HIDE DEF old
        <4> QED BY <2>2, <2>4, <3>2, <3>4, <4>1
      <3> QED BY <3>3, <3>4
    <2> QED BY <2>3, <2>4
  <1> HIDE DEF old
  <1>10. /\ DOMAIN nodes' = (D \ G) \cup {l} /\ nodes' = [n \in DOMAIN nodes' |-> nodes'[n]]
         /\ \A n \in D \ G : nodes'[n] = old[n]
         /\ under => nodes'[l] = Node("placeholder", P, z, << >>) /\ l \in Fresh \ D
    <2>1. CASE under
      <3>1. l = p /\ p \in Fresh \ D
        BY <1>2, <2>1 DEF l
      <3>2. DOMAIN new = {p} /\ new[p] = Node("placeholder", P, z, << >>)
        BY <2>1 DEF Put
      <3> HIDE DEF new
      <3> QED BY <1>2, <1>8, <3>1, <3>2 DEF With
    <2>2. CASE ~ under
      <3>1. l = z /\ DOMAIN new = {}
        BY <1>8, <2>2 DEF l
      <3> HIDE DEF new
      <3> QED BY <1>2, <1>3, <1>8, <2>2, <3>1 DEF With
    <2> QED BY <2>1, <2>2
  <1>11. under => /\ nodes'[l] \in NodeSet /\ nodes'[l].type = "placeholder" /\ nodes'[l].parents = P
                  /\ NextNodes(nodes', l) = {z}
    <2> SUFFICES ASSUME under PROVE /\ nodes'[l] \in NodeSet /\ nodes'[l].type = "placeholder"
                                    /\ nodes'[l].parents = P /\ NextNodes(nodes', l) = {z}
      OBVIOUS
    <2>1. nodes'[l] = [type |-> "placeholder", parents |-> P, next |-> z, conditions |-> << >>]
      BY <1>10 DEF Node
    <2>2. << >> \in Seq(Keys \cup {None}) /\ P \in SUBSET Keys /\ z \in Keys \cup {None} /\ "placeholder" \in Types
      BY <1>1, <1>3, <1>4 DEF Types
    <2>3. nodes'[l] \in NodeSet
      BY <2>1, <2>2 DEF NodeSet
    <2> QED BY <2>1, <2>3 DEF NextNodes
  <1>12. Typed(nodes')
    <2>1. \A n \in DOMAIN nodes' : nodes'[n] \in NodeSet
      <3> TAKE n \in DOMAIN nodes'
      <3>1. CASE n \in D \ G
        BY <1>9, <1>10, <3>1
      <3>2. CASE n \notin D \ G
        <4>1. under /\ n = l
          BY <1>3, <1>10, <3>2 DEF l
        <4> QED BY <1>11, <4>1
      <3> QED BY <3>1, <3>2
    <2>2. DOMAIN nodes' \subseteq Keys
      BY <1>1, <1>4, <1>10
    <2> QED BY <1>10, <2>1, <2>2 DEF Typed
  <1>13. ASSUME NEW n \in D \ G
         PROVE  /\ nodes'[n].type = nodes[n].type
                /\ nodes'[n].parents = IF n = z
                                       THEN IF under THEN ((nodes[z].parents \ G) \cup {l}) \ P
                                            ELSE (nodes[z].parents \ G) \cup P
                                       ELSE nodes[n].parents
                /\ NextNodes(nodes', n) = IF n \in P THEN (NextNodes(nodes, n) \ {r}) \cup {l} ELSE NextNodes(nodes, n)
                /\ nodes'[n].type = "condition" => IsInjective(nodes'[n].conditions)
    <2>1. /\ nodes'[n] = old[n] /\ nodes'[n].type = nodes[n].type
          /\ nodes[n].type = "condition" => IsInjective(nodes[n].conditions) /\ n # "end-node"
      BY <1>1, <1>9, <1>10 DEF Parted, Built, Ends
    <2>2. n # z => nodes[n].parents \ G = nodes[n].parents
      <3> SUFFICES ASSUME n # z, NEW m \in nodes[n].parents, m \in G PROVE FALSE
        OBVIOUS
      <3>1. m \in D /\ n \in next[m]
        BY <1>1 DEF Agree, Preds, next
      <3> QED BY <3>1 DEF Region, G, next
    <2>3. CASE n \in P
      <3>1. r \in NextNodes(nodes, n) /\ NextNodes(nodes, n) \subseteq D
        BY <1>1, <1>6, <2>3 DEF Linked
      <3>2. CASE nodes[n].type # "condition"
        <4>1. NextNodes(nodes, n) = {r}
          BY <3>1, <3>2 DEF NextNodes
        <4>2. NextNodes(nodes', n) = {l}
          BY <1>9, <2>1, <2>3, <3>2 DEF NextNodes
        <4> QED BY <1>9, <2>1, <2>2, <2>3, <3>2, <4>1, <4>2
      <3>3. CASE nodes[n].type = "condition"
        <4> DEFINE s == nodes[n].conditions
                   s1 == Relinked(s, r, None)
                   s2 == Relinked(s1, None, l)
        <4>1. s \in Seq(Keys \cup {None}) /\ ToSet(s) = NextNodes(nodes, n) /\ IsInjective(s)
              /\ r \in ToSet(s) /\ None \notin ToSet(s)
          BY <1>1, <2>1, <3>1, <3>3 DEF NodeSet, NextNodes
        <4>2. l \in Fresh \ D
          BY <1>10, <2>3, <3>3 DEF under, UnderCondition, P
        <4> HIDE DEF s
        <4>3. s1 \in Seq(Keys \cup {None}) /\ ToSet(s1) = (ToSet(s) \ {r}) \cup {None} /\ IsInjective(s1)
          <5>1. None \in Keys \cup {None}
            OBVIOUS
          <5> QED BY <4>1, <5>1, RelinkedIs
        <4> HIDE DEF s1
        <4>4. None \in ToSet(s1) /\ l \notin ToSet(s1) /\ l \in Keys \cup {None} /\ l # None
          BY <1>1, <1>4, <3>1, <4>1, <4>2, <4>3
        <4>5. ToSet(s2) = (ToSet(s1) \ {None}) \cup {l} /\ IsInjective(s2)
          BY <4>3, <4>4, RelinkedIs
        <4>6. ToSet(s2) = (ToSet(s) \ {r}) \cup {l}
          BY <4>1, <4>3, <4>5
        <4>7. nodes'[n].conditions = s2
          BY <1>9, <2>1, <2>3, <3>3 DEF s, s1
        <4>8. NextNodes(nodes', n) = ToSet(s2)
          BY <2>1, <3>3, <4>7 DEF NextNodes
        <4> HIDE DEF s2
        <4> QED BY <1>9, <2>1, <2>2, <2>3, <4>1, <4>5, <4>6, <4>7, <4>8
      <3> QED BY <3>2, <3>3
    <2>4. CASE n \notin P
      <3>1. NextNodes(nodes', n) = NextNodes(nodes, n)
        BY <1>9, <2>1, <2>4 DEF NextNodes
      <3>2. nodes'[n].type = "condition" => IsInjective(nodes'[n].conditions)
        BY <1>9, <2>1, <2>4
      <3> QED BY <1>9, <2>1, <2>2, <2>4, <3>1, <3>2
    <2> QED BY <2>3, <2>4
  <1>14. under <=> \E k \in P : nodes[k].type = "condition"
    BY DEF under, UnderCondition, P
  <1>15. IF under THEN l \in Fresh \ D ELSE l = z
    BY <1>10 DEF l
  <1>16. Collapses(nodes, r, z, G, l, nodes')
    BY <1>2, <1>10, <1>11, <1>12, <1>13, <1>14, <1>15 DEF Collapses, P
  <1> QED BY <1>2, <1>16 DEF G, l, under

--------------------------------------------------------------------------------
(* Removal of a condition and of a branch.                                 *)

(* smartRemoveCondition keeps the flow.                                    *)
LEMMA ConditionRemoved ==
  ASSUME Built(nodes), NEW r \in DOMAIN nodes, NEW p \in Fresh, smartRemoveCondition(r, p)
  PROVE  Built(nodes') /\ Drawn(nodes', edges')
  <1> DEFINE next == Successors(nodes)
  <1>1. /\ DOMAIN next = DOMAIN nodes /\ Core(next)
        /\ nodes[r].type = "condition"
    BY BuiltFacts DEF Built, smartRemoveCondition
  <1>2. r # "form-node" /\ r # "end-node"
    BY <1>1 DEF Built, Ends
  <1>3. PICK rank, J : Layers(next, Joins(next), rank, J)
    BY <1>1 DEF Core, Layered
  <1>4. PICK c \in next[r] : TRUE
    BY <1>1, <1>2 DEF Core
  <1>5. \A m \in next[r] : J[m] = J[c]
    BY <1>1, <1>3, <1>4 DEF Layers
  <1>6. r \in DOMAIN nodes \ {"form-node", "end-node"}
    BY <1>2
  <1>7. reconnectionTargets(r) = {J[c]}
    BY <1>2, <1>3, <1>5, OneJoin
  <1>8. Region(Successors(nodes), rank, J, r, J[c], Subtree(r))
    BY <1>3, <1>5, <1>6, SubtreeIs
  <1>9. Layers(Successors(nodes), Joins(Successors(nodes)), rank, J)
    BY <1>3
  <1>10. /\ Collapses(nodes, r, J[c], Subtree(r), IF UnderCondition(r) THEN p ELSE J[c], nodes')
         /\ edges' = calculateEdges(nodes')
    BY <1>7, <1>8, <1>9, CollapsedIs
  <1>11. Built(nodes')
    BY <1>8, <1>9, <1>10, CollapsesBuilt
  <1> QED BY <1>10, <1>11, CalculatedEdges DEF Built

--------------------------------------------------------------------------------
(* A list of branches with one left out.                                   *)
LEMMA RemoveAtIs ==
  ASSUME NEW T, NEW s \in Seq(T), IsInjective(s), NEW i \in 1 .. Len(s)
  PROVE  /\ RemoveAt(s, i) \in Seq(T)
         /\ ToSet(RemoveAt(s, i)) = ToSet(s) \ {s[i]}
         /\ IsInjective(RemoveAt(s, i))
  <1> DEFINE a == SubSeq(s, 1, i - 1)
             b == SubSeq(s, i + 1, Len(s))
             v == RemoveAt(s, i)
  <1>1. Len(s) \in Nat /\ i \in Nat /\ i >= 1 /\ i <= Len(s) /\ DOMAIN s = 1 .. Len(s)
    OBVIOUS
  <1>2. a \in Seq(T) /\ b \in Seq(T) /\ Len(a) = i - 1 /\ Len(b) = Len(s) - i
        /\ (\A j \in 1 .. i - 1 : a[j] = s[j]) /\ (\A j \in 1 .. Len(s) - i : b[j] = s[j + i])
    <2>1. /\ 1 \in Int /\ i - 1 \in Int /\ i + 1 \in Int /\ Len(s) \in Int
          /\ (\A j \in 1 .. i - 1 : s[j] \in T) /\ (\A j \in i + 1 .. Len(s) : s[j] \in T)
      BY <1>1
    <2>2. /\ a \in Seq(T) /\ Len(a) = (IF 1 <= i - 1 THEN (i - 1) - 1 + 1 ELSE 0)
          /\ \A j \in 1 .. (i - 1) - 1 + 1 : a[j] = s[1 + j - 1]
      BY <2>1, SubSeqProperties
    <2>3. /\ b \in Seq(T) /\ Len(b) = (IF i + 1 <= Len(s) THEN Len(s) - (i + 1) + 1 ELSE 0)
          /\ \A j \in 1 .. Len(s) - (i + 1) + 1 : b[j] = s[i + 1 + j - 1]
      BY <2>1, SubSeqProperties
    <2> HIDE DEF a, b
    <2>4. Len(a) = i - 1 /\ Len(b) = Len(s) - i
      <3>1. (IF 1 <= i - 1 THEN (i - 1) - 1 + 1 ELSE 0) = i - 1
        BY <1>1
      <3>2. (IF i + 1 <= Len(s) THEN Len(s) - (i + 1) + 1 ELSE 0) = Len(s) - i
        <4>1. ASSUME NEW n \in Nat, i <= n PROVE (IF i + 1 <= n THEN n - (i + 1) + 1 ELSE 0) = n - i
          <5>1. CASE i + 1 <= n
            BY <1>1, <5>1
          <5>2. CASE ~ (i + 1 <= n)
            <6>1. i = n
              BY <1>1, <4>1, <5>2
            <6> QED BY <5>2, <6>1
          <5> QED BY <5>1, <5>2
        <4> QED BY <1>1, <4>1
      <3> QED BY <2>2, <2>3, <3>1, <3>2
    <2>5. \A j \in 1 .. i - 1 : a[j] = s[j]
      <3> TAKE j \in 1 .. i - 1
      <3>1. j \in 1 .. (i - 1) - 1 + 1 /\ 1 + j - 1 = j
        BY <1>1
      <3> QED BY <2>2, <3>1
    <2>6. \A j \in 1 .. Len(s) - i : b[j] = s[j + i]
      <3> TAKE j \in 1 .. Len(s) - i
      <3>1. j \in 1 .. Len(s) - (i + 1) + 1 /\ i + 1 + j - 1 = j + i
        BY <1>1
      <3> QED BY <2>3, <3>1
    <2> QED BY <2>2, <2>3, <2>4, <2>5, <2>6
  <1>3. v = a \o b
    BY DEF RemoveAt
  <1> HIDE DEF a, b, v
  <1>4. v \in Seq(T) /\ Len(v) = Len(s) - 1 /\ DOMAIN v = 1 .. Len(s) - 1
        /\ \A j \in 1 .. Len(s) - 1 : v[j] = IF j < i THEN s[j] ELSE s[j + 1]
    <2>1. v \in Seq(T) /\ Len(v) = Len(s) - 1 /\ DOMAIN v = 1 .. Len(s) - 1
      <3>1. v \in Seq(T) /\ Len(v) = Len(a) + Len(b)
        BY <1>2, <1>3, ConcatProperties
      <3> QED BY <1>1, <1>2, <3>1
    <2>2. ASSUME NEW j \in 1 .. Len(s) - 1 PROVE v[j] = IF j < i THEN s[j] ELSE s[j + 1]
      <3>1. CASE j < i
        <4>1. v[j] = a[j] /\ j \in 1 .. i - 1
          BY <1>1, <1>2, <1>3, <3>1
        <4> QED BY <1>2, <3>1, <4>1
      <3>2. CASE ~ (j < i)
        <4>1. v[j] = b[j - (i - 1)] /\ j - (i - 1) \in 1 .. Len(s) - i
          BY <1>1, <1>2, <1>3, <3>2
        <4>2. b[j - (i - 1)] = s[j - (i - 1) + i] /\ j - (i - 1) + i = j + 1
          BY <1>1, <1>2, <4>1
        <4> QED BY <3>2, <4>1, <4>2
      <3> QED BY <3>1, <3>2
    <2> QED BY <2>1, <2>2
  <1>5. ToSet(v) = ToSet(s) \ {s[i]}
    <2>1. ASSUME NEW y \in ToSet(v) PROVE y \in ToSet(s) /\ y # s[i]
      <3>1. PICK j \in 1 .. Len(s) - 1 : v[j] = y
        BY <1>4 DEF ToSet
      <3>2. PICK m \in 1 .. Len(s) : m # i /\ s[m] = y
        <4>1. CASE j < i
          BY <1>1, <1>4, <3>1, <4>1
        <4>2. CASE ~ (j < i)
          <5>1. j + 1 \in 1 .. Len(s) /\ j + 1 # i /\ s[j + 1] = y
            BY <1>1, <1>4, <3>1, <4>2
          <5> QED BY <5>1
        <4> QED BY <4>1, <4>2
      <3> QED BY <1>1, <3>2 DEF ToSet, IsInjective
    <2>2. ASSUME NEW y \in ToSet(s), y # s[i] PROVE y \in ToSet(v)
      <3>1. PICK m \in 1 .. Len(s) : s[m] = y /\ m # i
        BY <1>1, <2>2 DEF ToSet
      <3>2. CASE m < i
        <4>1. m \in 1 .. Len(s) - 1 /\ v[m] = y
          BY <1>1, <1>4, <3>1, <3>2
        <4> QED BY <1>4, <4>1 DEF ToSet
      <3>3. CASE ~ (m < i)
        <4>1. m - 1 \in 1 .. Len(s) - 1 /\ ~ (m - 1 < i) /\ (m - 1) + 1 = m
          BY <1>1, <3>1, <3>3
        <4>2. v[m - 1] = s[(m - 1) + 1]
          BY <1>4, <4>1
        <4> QED BY <1>4, <3>1, <4>1, <4>2 DEF ToSet
      <3> QED BY <3>2, <3>3
    <2> QED BY <2>1, <2>2
  <1>6. IsInjective(v)
    <2> SUFFICES ASSUME NEW j \in 1 .. Len(s) - 1, NEW l \in 1 .. Len(s) - 1, v[j] = v[l] PROVE j = l
      BY <1>4 DEF IsInjective
    <2> DEFINE at(n) == IF n < i THEN n ELSE n + 1
    <2>1. at(j) \in 1 .. Len(s) /\ at(l) \in 1 .. Len(s) /\ v[j] = s[at(j)] /\ v[l] = s[at(l)]
      BY <1>1, <1>4
    <2>2. at(j) = at(l)
      <3> HIDE DEF at
      <3> QED BY <1>1, <2>1 DEF IsInjective
    <2> QED BY <1>1, <2>2
  <1> QED BY <1>4, <1>5, <1>6 DEF v

--------------------------------------------------------------------------------
(* The branch of a condition k that begins with t goes with its nodes G.   *)
Withers(g, k, t, G, g2) ==
  /\ k \in DOMAIN g /\ g[k].type = "condition" /\ t \in NextNodes(g, k)
  /\ \E u \in NextNodes(g, k) : u # t
  /\ Typed(g2) /\ DOMAIN g2 = DOMAIN g \ G
  /\ \A n \in DOMAIN g \ G :
       /\ g2[n].type = g[n].type
       /\ g2[n].parents = g[n].parents \ G
       /\ NextNodes(g2, n) = IF n = k THEN NextNodes(g, k) \ {t} ELSE NextNodes(g, n)
       /\ g2[n].type = "condition" => IsInjective(g2[n].conditions)

(* A flow with a branch less is built.                                     *)
LEMMA WithersBuilt ==
  ASSUME NEW g, Built(g), NEW rank, NEW J, Layers(Successors(g), Joins(Successors(g)), rank, J),
         NEW k, NEW t, NEW z, NEW G, Region(Successors(g), rank, J, t, z, G),
         NEW g2, Withers(g, k, t, G, g2)
  PROVE  Built(g2)
  <1> DEFINE D == DOMAIN g
             next  == Successors(g)
             next2 == Successors(g2)
  <1>1. /\ Typed(g) /\ Ends(g) /\ Linked(g) /\ Agree(g) /\ Core(next) /\ Parted(g) /\ Places(g)
        /\ "form-node" \in D /\ "end-node" \in D /\ None \notin D /\ DOMAIN next = D
        /\ \A n \in D : next[n] = IF n = "end-node" THEN {} ELSE NextNodes(g, n)
        /\ k \in D /\ g[k].type = "condition"
        /\ IsFiniteSet(D)
    <2>1. IsFiniteSet(D)
      BY KeysAre, FS_Subset DEF Built, Typed
    <2> QED BY <2>1, BuiltFacts DEF Built, Withers
  <1>2. Layers(next, Joins(next), rank, J) /\ Region(next, rank, J, t, z, G)
    OBVIOUS
  <1>3. /\ G \subseteq D /\ t \in G /\ z \in D \ G /\ z \in Joins(next)
        /\ "form-node" \notin G /\ "end-node" \notin G
    BY <1>1 DEF Region, Joins
  <1>4. /\ k # "end-node" /\ next[k] = NextNodes(g, k) /\ t \in next[k] /\ next[k] \cap Joins(next) = {}
    <2>1. k # "end-node"
      BY <1>1 DEF Ends
    <2> QED BY <1>1, <2>1 DEF Withers, Parted
  <1>5. Preds(next, t) = {k}
    <2>1. ~ Several(Preds(next, t)) /\ k \in Preds(next, t)
      BY <1>1, <1>3, <1>4 DEF Joins, Preds
    <2> QED BY <2>1 DEF Several
  <1>6. /\ \A n \in D : rank[n] \in Nat
        /\ k \notin G
    <2>1. \A n \in D : rank[n] \in Nat
      BY <1>1, <1>2 DEF Layers
    <2>2. rank[k] < rank[t]
      BY <1>1, <1>2, <1>4, EdgeFacts
    <2> QED BY <1>1, <1>2, <1>3, <2>1, <2>2 DEF Region
  <1>7. PICK u \in next[k] : u # t
    BY <1>4 DEF Withers
  <1>8. /\ Typed(g2) /\ DOMAIN g2 = D \ G
        /\ \A n \in D \ G :
             /\ g2[n].type = g[n].type
             /\ g2[n].parents = g[n].parents \ G
             /\ NextNodes(g2, n) = IF n = k THEN NextNodes(g, k) \ {t} ELSE NextNodes(g, n)
             /\ g2[n].type = "condition" => IsInjective(g2[n].conditions)
    BY DEF Withers
  <1> HIDE DEF next
  <1>9. \A n \in D \ G : n # k => next[n] \cap G = {}
    <2> SUFFICES ASSUME NEW n \in D \ G, NEW m \in next[n] \cap G PROVE n = k
      OBVIOUS
    <2>1. m = t
      BY <1>1, <1>2 DEF Region
    <2> QED BY <1>1, <1>5, <2>1 DEF Preds
  <1>10. next[k] \cap G = {t}
    BY <1>1, <1>2, <1>3, <1>4, <1>6 DEF Region
  <1>11. Ends(g2)
    BY <1>1, <1>3, <1>8 DEF Ends
  <1>12. Linked(g2)
    <2>1. NextNodes(g2, "end-node") = {None}
      BY <1>1, <1>3, <1>4, <1>8 DEF Linked
    <2>2. ASSUME NEW n \in D \ G, n # "end-node" PROVE NextNodes(g2, n) \subseteq D \ G
      <3>1. NextNodes(g, n) \subseteq D /\ next[n] = NextNodes(g, n)
        BY <1>1, <2>2 DEF Linked
      <3>2. CASE n = k
        BY <1>8, <1>10, <3>1, <3>2
      <3>3. CASE n # k
        BY <1>8, <1>9, <3>1, <3>3
      <3> QED BY <3>2, <3>3
    <2> QED BY <1>8, <2>1, <2>2 DEF Linked
  <1>13. /\ DOMAIN next2 = D \ G
         /\ \A n \in D \ G : next2[n] = IF n = "end-node" THEN {} ELSE NextNodes(g2, n)
    BY <1>8, <1>12, SuccessorsAre
  <1> HIDE DEF next2
  <1>14. \A n \in D \ G : next2[n] = IF n = k THEN next[k] \ {t} ELSE next[n]
    <2> TAKE n \in D \ G
    <2>1. CASE n = "end-node"
      BY <1>1, <1>4, <1>13, <2>1
    <2>2. CASE n # "end-node"
      <3>1. NextNodes(g2, n) = IF n = k THEN NextNodes(g, k) \ {t} ELSE NextNodes(g, n)
        BY <1>8
      <3> QED BY <1>1, <1>13, <2>2, <3>1
    <2> QED BY <2>1, <2>2
  <1>15. Preds(next2, z) # {}
    <2> DEFINE Q == {n \in D \ G : n \notin Joins(next) /\ J[n] = z /\ rank[k] < rank[n]}
    <2>1. u \in Q
      <3>1. u \in D /\ u \notin G /\ u \notin Joins(next) /\ rank[k] < rank[u]
        BY <1>1, <1>2, <1>4, <1>7, <1>10, EdgeFacts
      <3>2. J[u] = J[t]
        BY <1>1, <1>2, <1>4, <1>7 DEF Layers
      <3>3. J[t] = z
        <4>1. t \in D /\ t # "end-node" /\ t \notin Joins(next)
          BY <1>3, <1>4
        <4>2. PICK m \in next[t] : TRUE
          BY <1>1, <4>1 DEF Core
        <4>3. J[m] = z
          BY <1>2, <4>2 DEF Region
        <4> QED BY <1>1, <1>2, <4>1, <4>2, <4>3 DEF Layers
      <3> QED BY <3>1, <3>2, <3>3
    <2>2. PICK n \in Q : \A m \in Q : rank[m] <= rank[n]
      <3>1. Q \in SUBSET D /\ Q # {} /\ \A m \in Q : rank[m] \in Nat
        BY <1>6, <2>1
      <3> HIDE DEF Q
      <3> QED BY <1>1, <3>1, SomeIsLast
    <2>3. n \in D \ G /\ n # "end-node" /\ n # k
      BY <1>1, <1>6, <2>2 DEF Joins
    <2>4. PICK m \in next[n] : TRUE
      BY <1>1, <2>3 DEF Core
    <2>5. m \in D \ G /\ rank[n] < rank[m] /\ J[m] = z
      <3>1. m \notin G
        BY <1>9, <2>3
      <3> QED BY <1>1, <1>2, <2>2, <2>3, <2>4, <3>1 DEF Layers
    <2>6. m \in Joins(next)
      BY <1>1, <1>6, <2>2, <2>3, <2>5
    <2>7. m = z
      BY <1>2, <2>5, <2>6 DEF Layers
    <2>8. n \in Preds(next2, z)
      BY <1>13, <1>14, <2>3, <2>4, <2>7 DEF Preds
    <2> QED BY <2>8
  <1>16. Prunes(next, t, z, G, next2)
    <2>1. \A n \in D \ G : /\ next[n] \ {t} \subseteq next2[n]
                           /\ next2[n] \subseteq (next[n] \ {t}) \cup (IF t \in next[n] THEN {z} ELSE {})
                           /\ next2[n] = {} => n = "end-node"
      <3> TAKE n \in D \ G
      <3>1. CASE n = k
        BY <1>7, <1>14, <3>1
      <3>2. CASE n # k
        <4>1. t \notin next[n] /\ (next[n] = {} => n = "end-node")
          BY <1>1, <1>3, <1>9, <3>2 DEF Core
        <4> QED BY <1>14, <3>2, <4>1
      <3> QED BY <3>1, <3>2
    <2> QED BY <1>1, <1>13, <1>15, <2>1 DEF Prunes
  <1>17. /\ Core(next2) /\ Joins(next2) \subseteq Joins(next) \ G
         /\ Preds(next2, z) \subseteq (Preds(next, z) \ G) \cup Preds(next, t)
         /\ Preds(next, z) \ G \subseteq Preds(next2, z)
         /\ \A n \in DOMAIN next2 \ {z} : Preds(next2, n) = Preds(next, n)
    BY <1>1, <1>2, <1>16, PrunedCore
  <1>18. \A n \in D \ G : Preds(next2, n) = Preds(next, n) \ G
    <2> TAKE n \in D \ G
    <2>1. Preds(next2, n) \subseteq D \ G
      BY <1>13 DEF Preds
    <2>2. CASE n # z
      BY <1>13, <1>17, <2>1, <2>2
    <2>3. CASE n = z
      <3>1. k \notin Preds(next2, z)
        BY <1>1, <1>3, <1>4, <1>6, <1>14 DEF Preds
      <3> QED BY <1>5, <1>17, <2>3, <3>1
    <2> QED BY <2>2, <2>3
  <1>19. Agree(g2)
    <2> SUFFICES ASSUME NEW n \in D \ G PROVE g2[n].parents = Preds(next2, n)
      BY <1>8 DEF Agree, next2
    <2>1. g[n].parents = Preds(next, n)
      BY <1>1 DEF Agree, next
    <2> QED BY <1>8, <1>18, <2>1
  <1>20. Parted(g2)
    <2> SUFFICES ASSUME NEW n \in D \ G, g2[n].type = "condition"
                 PROVE  NextNodes(g2, n) \cap Joins(next) = {} /\ IsInjective(g2[n].conditions)
      BY <1>8, <1>17 DEF Parted, next2
    <2>1. NextNodes(g, n) \cap Joins(next) = {}
      BY <1>1, <1>8 DEF Parted, next
    <2> QED BY <1>8, <2>1
  <1>21. Places(g2)
    <2> SUFFICES ASSUME NEW n \in D \ G, g2[n].type = "placeholder", NEW m \in g2[n].parents
                 PROVE  g2[m].type = "condition"
      BY <1>8 DEF Places
    <2>1. g[n].type = "placeholder" /\ m \in g[n].parents \ G
      BY <1>8
    <2>2. m \in D /\ g[m].type = "condition"
      BY <1>1, <2>1 DEF Places, Agree, Preds, next
    <2> QED BY <1>8, <2>1, <2>2
  <1> QED BY <1>8, <1>11, <1>12, <1>17, <1>19, <1>20, <1>21 DEF Built, next2

--------------------------------------------------------------------------------
(* removeBranch keeps the flow.                                            *)
LEMMA BranchRemoved ==
  ASSUME Built(nodes), NEW k \in DOMAIN nodes, NEW i \in DOMAIN nodes[k].conditions, removeBranch(k, i)
  PROVE  Built(nodes') /\ Drawn(nodes', edges')
  <1> DEFINE D == DOMAIN nodes
             next == Successors(nodes)
             s == nodes[k].conditions
             t == s[i]
             G == Subtree(t)
             pruned == Pruned(G)
  <1>1. /\ Typed(nodes) /\ Linked(nodes) /\ Agree(nodes) /\ Parted(nodes) /\ Core(next) /\ Ends(nodes)
        /\ D \subseteq Keys /\ None \notin D /\ None \notin Keys /\ DOMAIN next = D
        /\ \A n \in D : nodes[n] \in NodeSet
        /\ \A n \in D : next[n] = IF n = "end-node" THEN {} ELSE NextNodes(nodes, n)
        /\ \A n \in D : IsShared(nodes, n) <=> n \in Joins(next)
        /\ nodes[k].type = "condition" /\ i \in 2 .. Len(s)
    BY BuiltFacts, KeysAre DEF Built, Typed, Linked, removeBranch
  <1>2. k # "end-node"
    BY <1>1 DEF Ends
  <1>3. /\ s \in Seq(Keys \cup {None}) /\ ToSet(s) = NextNodes(nodes, k) /\ IsInjective(s)
        /\ ToSet(s) \subseteq D /\ ToSet(s) = next[k] /\ ToSet(s) \cap Joins(next) = {}
    BY <1>1, <1>2 DEF NodeSet, NextNodes, Linked, Parted
  <1>4. /\ i \in 1 .. Len(s) /\ 1 \in 1 .. Len(s) /\ 1 # i /\ DOMAIN s = 1 .. Len(s)
    BY <1>1, <1>3
  <1>5. t \in ToSet(s) /\ s[1] \in ToSet(s) /\ s[1] # t
    BY <1>3, <1>4 DEF ToSet, IsInjective
  <1>6. t \in D \ {"form-node", "end-node"} /\ t # None /\ ~ IsShared(nodes, t) /\ t \notin Joins(next)
    <2>1. t \in D /\ t \notin Joins(next)
      BY <1>3, <1>5
    <2>2. t # "end-node"
      BY <1>1, <2>1 DEF Joins
    <2>3. t # "form-node"
      BY <1>1, <1>3, <1>5 DEF Core
    <2> QED BY <1>1, <2>1, <2>2, <2>3
  <1>7. PICK rank, J : Layers(next, Joins(next), rank, J)
    BY <1>1 DEF Core, Layered
  <1>8. PICK z : \A m \in next[t] : J[m] = z
    <2>1. PICK m \in next[t] : TRUE
      BY <1>1, <1>6 DEF Core
    <2>2. \A l \in next[t] : J[l] = J[m]
      BY <1>1, <1>6, <1>7, <2>1 DEF Layers
    <2> QED BY <2>2
  <1>9. Layers(Successors(nodes), Joins(Successors(nodes)), rank, J)
    BY <1>7
  <1>10. Region(Successors(nodes), rank, J, t, z, G)
    <2>1. \A m \in Successors(nodes)[t] : J[m] = z
      BY <1>8
    <2> HIDE DEF next, t
    <2>2. Region(Successors(nodes), rank, J, t, z, Subtree(t))
      BY <1>6, <1>9, <2>1, SubtreeIs
    <2> QED BY <2>2
  <1>11. /\ nodes' = [pruned EXCEPT ![k].conditions = RemoveAt(@, i)]
         /\ edges' = calculateEdges(nodes')
    BY <1>6 DEF removeBranch, applyLayout
  <1> HIDE DEF next, t, G, s
  <1>12. t \in G /\ G \subseteq D /\ k \in D \ G
    <2>1. t \in G /\ G \subseteq D
      BY <1>1, <1>10 DEF Region, next
    <2>2. rank[k] < rank[t] /\ rank[k] \in Nat /\ rank[t] \in Nat
      BY <1>1, <1>3, <1>5, <1>7, EdgeFacts
    <2>3. k \notin G
      BY <1>10, <2>2 DEF Region
    <2> QED BY <2>1, <2>3
  <1>13. /\ \A n \in D \ G : n # k => NextNodes(nodes, n) \cap G = {}
         /\ NextNodes(nodes, k) \cap G = {t}
    <2>1. \A n \in D \ G : next[n] \cap G \subseteq {t}
      BY <1>1, <1>10 DEF Region, next
    <2>2. Preds(next, t) = {k}
      <3>1. ~ Several(Preds(next, t)) /\ k \in Preds(next, t)
        BY <1>1, <1>3, <1>5, <1>6 DEF Joins, Preds
      <3> QED BY <3>1 DEF Several
    <2>3. ASSUME NEW n \in D \ G, n # k PROVE NextNodes(nodes, n) \cap G = {}
      <3>1. CASE n = "end-node"
        BY <1>1, <1>12, <3>1 DEF Linked
      <3>2. CASE n # "end-node"
        <4>1. t \notin next[n]
          BY <1>1, <2>2, <2>3 DEF Preds
        <4> QED BY <1>1, <2>1, <3>2, <4>1
      <3> QED BY <3>1, <3>2
    <2>4. NextNodes(nodes, k) \cap G = {t}
      BY <1>3, <1>5, <1>12, <2>1
    <2> QED BY <2>3, <2>4
  <1>14. \A n \in D \ G : PrunedTo(n, G, pruned[n])
    BY <1>1, PrunedIs
  <1>15. DOMAIN pruned = D \ G
    BY DEF Pruned
  <1> HIDE DEF pruned
  <1>16. pruned[k].type = "condition" /\ pruned[k].conditions = Relinked(s, t, None)
    <2>1. PrunedTo(k, G, pruned[k])
      BY <1>12, <1>14
    <2>2. pruned[k].type = "condition"
      BY <1>1, <2>1 DEF PrunedTo
    <2>3. pruned[k].conditions = Relinked(nodes[k].conditions, t, None)
      BY <1>1, <1>12, <1>13, <2>1, <2>2, PrunedOpens
    <2> QED BY <2>2, <2>3 DEF s
  <1> DEFINE s1 == Relinked(s, t, None)
             s2 == RemoveAt(s1, i)
  <1>17. /\ s2 \in Seq(Keys \cup {None}) /\ ToSet(s2) = ToSet(s) \ {t} /\ IsInjective(s2)
    <2>1. None \in Keys \cup {None} /\ None \notin ToSet(s)
      BY <1>1, <1>3
    <2>2. /\ s1 \in Seq(Keys \cup {None}) /\ DOMAIN s1 = DOMAIN s
          /\ ToSet(s1) = (ToSet(s) \ {t}) \cup {None} /\ IsInjective(s1)
      BY <1>3, <1>5, <2>1, RelinkedIs
    <2>3. s1[i] = None
      BY <1>4 DEF Relinked, t
    <2> HIDE DEF s1
    <2>4. i \in 1 .. Len(s1)
      BY <1>4, <2>2
    <2>5. s2 \in Seq(Keys \cup {None}) /\ ToSet(s2) = ToSet(s1) \ {None} /\ IsInjective(s2)
      BY <2>2, <2>3, <2>4, RemoveAtIs
    <2> HIDE DEF s2
    <2> QED BY <2>1, <2>2, <2>5
  <1>18. /\ DOMAIN nodes' = D \ G /\ nodes' = [n \in DOMAIN nodes' |-> nodes'[n]]
         /\ nodes'[k] = [pruned[k] EXCEPT !.conditions = s2]
         /\ \A n \in D \ G : n # k => nodes'[n] = pruned[n]
    BY <1>11, <1>12, <1>15, <1>16
  <1> HIDE DEF s2
  <1>19. ASSUME NEW n \in D \ G
         PROVE  /\ nodes'[n] \in NodeSet
                /\ nodes'[n].type = nodes[n].type
                /\ nodes'[n].parents = nodes[n].parents \ G
                /\ NextNodes(nodes', n) = IF n = k THEN NextNodes(nodes, k) \ {t} ELSE NextNodes(nodes, n)
                /\ nodes'[n].type = "condition" => IsInjective(nodes'[n].conditions)
    <2>1. PrunedTo(n, G, pruned[n])
      BY <1>14
    <2>2. pruned[n] \in NodeSet /\ pruned[n].type = nodes[n].type /\ pruned[n].parents = nodes[n].parents \ G
      BY <2>1 DEF PrunedTo
    <2>3. CASE n = k
      <3>1. /\ nodes'[n] \in NodeSet /\ nodes'[n].type = pruned[n].type /\ nodes'[n].parents = pruned[n].parents
            /\ nodes'[n].conditions = s2
        BY <1>17, <1>18, <2>2, <2>3 DEF NodeSet
      <3> QED BY <1>1, <1>3, <1>17, <2>2, <2>3, <3>1 DEF NextNodes
    <2>4. CASE n # k
      <3>1. nodes'[n] = pruned[n] /\ NextNodes(nodes, n) \cap G = {}
        BY <1>13, <1>18, <2>4
      <3>2. /\ pruned[n].type # "condition" => pruned[n].next = nodes[n].next
            /\ pruned[n].type = "condition" => pruned[n].conditions = nodes[n].conditions
        BY <1>1, <2>1, <3>1, PrunedKeeps
      <3>3. nodes[n].type = "condition" => IsInjective(nodes[n].conditions)
        BY <1>1 DEF Parted
      <3> QED BY <2>2, <2>4, <3>1, <3>2, <3>3 DEF NextNodes
    <2> QED BY <2>3, <2>4
  <1>20. Typed(nodes')
    <2>1. \A n \in DOMAIN nodes' : nodes'[n] \in NodeSet
      BY <1>18, <1>19
    <2> QED BY <1>1, <1>18, <2>1 DEF Typed
  <1>21. Withers(nodes, k, t, G, nodes')
    <2>1. t \in NextNodes(nodes, k) /\ \E u \in NextNodes(nodes, k) : u # t
      BY <1>3, <1>5
    <2> QED BY <1>1, <1>18, <1>19, <1>20, <2>1 DEF Withers
  <1>22. Built(nodes')
    BY <1>9, <1>10, <1>21, WithersBuilt
  <1> QED BY <1>11, <1>20, <1>22, CalculatedEdges

--------------------------------------------------------------------------------
(* Loading and saving, and the edits of the edges alone.                   *)

(* Two graphs that differ in nothing that is looked at.                    *)
Resembles(g, g2) ==
  /\ Typed(g2) /\ DOMAIN g2 = DOMAIN g
  /\ \A n \in DOMAIN g :
       /\ g2[n].type = g[n].type /\ g2[n].parents = g[n].parents
       /\ NextNodes(g2, n) = NextNodes(g, n)
       /\ g[n].type = "condition" => g2[n].conditions = g[n].conditions

(* ... and if one is built, so is the other.                               *)
LEMMA ResemblesBuilt ==
  ASSUME NEW g, Built(g), NEW g2, Resembles(g, g2)
  PROVE  Built(g2)
  <1> DEFINE D == DOMAIN g
  <1>1. /\ Ends(g) /\ Linked(g) /\ Agree(g) /\ Core(Successors(g)) /\ Parted(g) /\ Places(g)
        /\ "end-node" \in D
    BY BuiltFacts DEF Built
  <1>2. Typed(g2) /\ DOMAIN g2 = D
    BY DEF Resembles
  <1>3. \A n \in D : /\ g2[n].type = g[n].type /\ g2[n].parents = g[n].parents
                     /\ NextNodes(g2, n) = NextNodes(g, n)
                     /\ g[n].type = "condition" => g2[n].conditions = g[n].conditions
    BY DEF Resembles
  <1>4. Successors(g2) = Successors(g)
    BY <1>2, <1>3 DEF Successors
  <1>5. Ends(g2)
    BY <1>1, <1>2, <1>3 DEF Ends
  <1>6. Linked(g2)
    BY <1>1, <1>2, <1>3 DEF Linked
  <1>7. Agree(g2)
    BY <1>1, <1>2, <1>3, <1>4 DEF Agree
  <1>8. Parted(g2)
    BY <1>1, <1>2, <1>3, <1>4 DEF Parted
  <1>9. Places(g2)
    <2> SUFFICES ASSUME NEW n \in D, g[n].type = "placeholder", NEW m \in g[n].parents
                 PROVE  g2[m].type = "condition"
      BY <1>2, <1>3 DEF Places
    <2>1. m \in D
      BY <1>1, BuiltFacts DEF Agree
    <2> QED BY <1>1, <1>3, <2>1 DEF Places
  <1> QED BY <1>1, <1>2, <1>4, <1>5, <1>6, <1>7, <1>8, <1>9 DEF Built

--------------------------------------------------------------------------------
(* The start: a form that leads to the end.                                *)
LEMMA InitialBuilt ==
  Built(initialNodes)
  <1> DEFINE g == initialNodes
             next == Successors(g)
  <1>1. /\ DOMAIN g = {"form-node", "end-node"}
        /\ g["form-node"] = Node("form", {}, "end-node", << >>)
        /\ g["end-node"] = Node("end", {"form-node"}, None, << >>)
        /\ g = [n \in DOMAIN g |-> g[n]]
    BY DEF initialNodes
  <1> HIDE DEF g
  <1>2. /\ g["form-node"] \in NodeSet /\ g["form-node"].type = "form" /\ g["form-node"].parents = {}
        /\ g["form-node"].next = "end-node"
        /\ g["end-node"] \in NodeSet /\ g["end-node"].type = "end" /\ g["end-node"].parents = {"form-node"}
        /\ g["end-node"].next = None
    <2>1. << >> \in Seq(Keys \cup {None}) /\ {} \in SUBSET Keys /\ {"form-node"} \in SUBSET Keys
          /\ "end-node" \in Keys \cup {None} /\ None \in Keys \cup {None}
      BY KeysAre DEF Keys
    <2>2. "form" \in Types /\ "end" \in Types
      BY DEF Types
    <2>3. /\ g["form-node"] = [type |-> "form", parents |-> {}, next |-> "end-node", conditions |-> << >>]
          /\ g["end-node"] = [type |-> "end", parents |-> {"form-node"}, next |-> None, conditions |-> << >>]
      BY <1>1 DEF Node
    <2>4. g["form-node"] \in NodeSet
      BY <2>1, <2>2, <2>3 DEF NodeSet
    <2>5. g["end-node"] \in NodeSet
      BY <2>1, <2>2, <2>3 DEF NodeSet
    <2> QED BY <2>3, <2>4, <2>5
  <1>3. NextNodes(g, "form-node") = {"end-node"} /\ NextNodes(g, "end-node") = {None}
    BY <1>2 DEF NextNodes
  <1>4. Typed(g)
    BY <1>1, <1>2, KeysAre DEF Typed, Keys
  <1>5. Ends(g)
    BY <1>1, <1>2 DEF Ends
  <1>6. Linked(g)
    BY <1>1, <1>3 DEF Linked
  <1>7. /\ DOMAIN next = {"form-node", "end-node"}
        /\ next["form-node"] = {"end-node"} /\ next["end-node"] = {}
    BY <1>1, <1>3, <1>4, <1>6, SuccessorsAre
  <1> HIDE DEF next
  <1>8. Preds(next, "form-node") = {} /\ Preds(next, "end-node") = {"form-node"}
    BY <1>7 DEF Preds
  <1>9. Agree(g)
    BY <1>1, <1>2, <1>8 DEF Agree, next
  <1>10. Joins(next) = {"end-node"}
    BY <1>7, <1>8 DEF Joins, Several
  <1>11. Layered(next, {"end-node"})
    <2> DEFINE rank == [n \in {"form-node", "end-node"} |-> IF n = "end-node" THEN 1 ELSE 0]
               J == [n \in {"form-node", "end-node"} |-> "end-node"]
    <2>1. Layers(next, {"end-node"}, rank, J)
      BY <1>7 DEF Layers
    <2> QED BY <2>1 DEF Layered
  <1>12. Core(next)
    BY <1>7, <1>8, <1>10, <1>11 DEF Core
  <1>13. Parted(g) /\ Places(g)
    BY <1>1, <1>2 DEF Parted, Places
  <1>14. Built(g)
    BY <1>4, <1>5, <1>6, <1>9, <1>12, <1>13 DEF Built, next
  <1> QED BY <1>14 DEF g

--------------------------------------------------------------------------------
(* A flow that may be saved has no empty places, and comes back as it was. *)
LEMMA NoPlaces ==
  ASSUME NEW g, Built(g), validateNodes(g)
  PROVE  NodesOf(g, "placeholder") = {}
  <1>1. SUFFICES ASSUME NEW n \in DOMAIN g, g[n].type = "placeholder" PROVE FALSE
    BY DEF NodesOf
  <1>2. /\ DOMAIN Successors(g) = DOMAIN g /\ Core(Successors(g)) /\ Agree(g) /\ Places(g) /\ Ends(g)
        /\ \A m \in DOMAIN g : Successors(g)[m] = IF m = "end-node" THEN {} ELSE NextNodes(g, m)
    BY BuiltFacts DEF Built
  <1>3. n # "form-node"
    BY <1>1, <1>2 DEF Ends
  <1>4. PICK m \in g[n].parents : TRUE
    BY <1>2, <1>3 DEF Core, Agree
  <1>5. m \in DOMAIN g /\ n \in NextNodes(g, m) /\ g[m].type = "condition"
    BY <1>1, <1>2, <1>4 DEF Agree, Preds, Places
  <1>6. PICK i \in DOMAIN g[m].conditions : g[m].conditions[i] = n
    BY <1>5 DEF NextNodes, ToSet
  <1> QED BY <1>1, <1>5, <1>6 DEF validateNodes, NodesOf

(* What is sent differs in nothing that is looked at.                      *)
LEMMA ParsedResembles ==
  ASSUME NEW g, Built(g), validateNodes(g)
  PROVE  Resembles(g, parseFlow(g))
  <1> DEFINE D == DOMAIN g
             g1 == parseFlow(g)
  <1>1. D \subseteq Keys /\ \A n \in D : g[n] \in NodeSet
    BY DEF Built, Typed
  <1>2. /\ DOMAIN g1 = D /\ g1 = [n \in DOMAIN g1 |-> g1[n]]
        /\ \A n \in D : g1[n] = IF g[n].type = "condition" THEN [g[n] EXCEPT !.next = None] ELSE g[n]
    BY NoPlaces DEF parseFlow
  <1> HIDE DEF g1
  <1>3. ASSUME NEW n \in D
        PROVE  /\ g1[n] \in NodeSet
               /\ g1[n].type = g[n].type /\ g1[n].parents = g[n].parents
               /\ NextNodes(g1, n) = NextNodes(g, n)
               /\ g[n].type = "condition" => g1[n].conditions = g[n].conditions
    <2>1. CASE g[n].type = "condition"
      <3>1. g1[n] = [g[n] EXCEPT !.next = None] /\ g[n] \in NodeSet
        BY <1>1, <1>2, <2>1
      <3>2. /\ g1[n] \in NodeSet /\ g1[n].type = g[n].type /\ g1[n].parents = g[n].parents
            /\ g1[n].conditions = g[n].conditions
        BY <3>1 DEF NodeSet
      <3> QED BY <2>1, <3>2 DEF NextNodes
    <2>2. CASE g[n].type # "condition"
      BY <1>1, <1>2, <2>2 DEF NextNodes
    <2> QED BY <2>1, <2>2
  <1>4. Typed(g1)
    BY <1>1, <1>2, <1>3 DEF Typed
  <1>5. Resembles(g, g1)
    BY <1>2, <1>3, <1>4 DEF Resembles
  <1> QED BY <1>5 DEF g1

(* Parents that agree are the nodes that lead to a node.                   *)
LEMMA ParentsAre ==
  ASSUME NEW g, Built(g), NEW n \in DOMAIN g
  PROVE  g[n].parents = {m \in DOMAIN g : n \in NextNodes(g, m)}
  <1>1. /\ g[n].parents = Preds(Successors(g), n) /\ DOMAIN Successors(g) = DOMAIN g /\ None \notin DOMAIN g
        /\ \A m \in DOMAIN g : Successors(g)[m] = IF m = "end-node" THEN {} ELSE NextNodes(g, m)
    BY BuiltFacts DEF Built, Agree
  <1>2. \A m \in DOMAIN g : n \in Successors(g)[m] <=> n \in NextNodes(g, m)
    <2> TAKE m \in DOMAIN g
    <2>1. NextNodes(g, "end-node") = {None}
      BY DEF Built, Linked
    <2> QED BY <1>1, <2>1
  <1> QED BY <1>1, <1>2 DEF Preds

(* Saving and loading keep the flow: the parents that are worked out are   *)
(* those that were kept.                                                   *)
LEMMA SavedBuilt ==
  ASSUME Built(nodes), Save
  PROVE  Built(nodes') /\ Drawn(nodes', edges')
  <1> DEFINE g1 == parseFlow(nodes)
             D == DOMAIN nodes
  <1>1. Built(g1) /\ DOMAIN g1 = D
    <2>1. Resembles(nodes, parseFlow(nodes))
      BY ParsedResembles DEF Save
    <2> QED BY <2>1, ResemblesBuilt DEF Resembles
  <1>2. nodes' = deparseFlow(g1) /\ edges' = calculateEdges(nodes')
    BY DEF Save, applyLayout
  <1> HIDE DEF g1
  <1>3. \A n \in D : g1[n] \in NodeSet
    BY <1>1 DEF Built, Typed
  <1>4. \A n \in D : {m \in D : n \in NextNodes(g1, m)} = g1[n].parents
    BY <1>1, ParentsAre
  <1>5. /\ DOMAIN nodes' = D /\ nodes' = [n \in DOMAIN nodes' |-> nodes'[n]]
        /\ \A n \in D : nodes'[n] = [g1[n] EXCEPT !.parents = g1[n].parents]
    BY <1>1, <1>2, <1>4 DEF deparseFlow
  <1>6. \A n \in D : nodes'[n] = g1[n]
    BY <1>3, <1>5 DEF NodeSet
  <1>7. Typed(nodes')
    BY <1>1, <1>3, <1>5, <1>6 DEF Built, Typed
  <1>8. Resembles(g1, nodes')
    BY <1>1, <1>5, <1>6, <1>7 DEF Resembles, NextNodes
  <1>9. Built(nodes')
    BY <1>1, <1>8, ResemblesBuilt
  <1> QED BY <1>2, <1>7, <1>9, CalculatedEdges

--------------------------------------------------------------------------------
(* Edits that change the edges, or pass the links by.                      *)
LEMMA ConnectedDrawn ==
  ASSUME Built(nodes), NEW s \in DOMAIN nodes, NEW t \in DOMAIN nodes, onConnect(s, t)
  PROVE  Drawn(nodes', edges')
  <1>1. Drawn(nodes, edges)
    BY CalculatedEdges DEF onConnect, Built
  <1>2. nodes' = nodes /\ edges' = [edges EXCEPT ![s] = <<t>>]
    BY DEF onConnect
  <1>3. DOMAIN <<t>> \subseteq Nat /\ <<t>> \in [DOMAIN <<t>> -> DOMAIN nodes]
    OBVIOUS
  <1>4. edges'[s] = <<t>> /\ (\A n \in DOMAIN nodes \ {s} : edges'[n] = edges[n]) /\ DOMAIN edges' = DOMAIN nodes
    BY <1>1, <1>2 DEF Drawn
  <1> QED BY <1>1, <1>2, <1>3, <1>4 DEF Drawn

(* An edge deleted.                                                        *)
LEMMA EdgeChangedDrawn ==
  ASSUME Built(nodes), NEW s \in DOMAIN nodes, NEW i \in DOMAIN edges[s], onEdgesChange(s, i)
  PROVE  Drawn(nodes', edges')
  <1>1. Drawn(nodes, edges)
    BY CalculatedEdges DEF onEdgesChange, Built
  <1> DEFINE left == Restrict(edges[s], DOMAIN edges[s] \ {i})
  <1>2. nodes' = nodes /\ edges' = [edges EXCEPT ![s] = left]
    BY DEF onEdgesChange
  <1>3. DOMAIN left \subseteq Nat /\ left \in [DOMAIN left -> DOMAIN nodes]
    <2>1. left = [j \in DOMAIN edges[s] \ {i} |-> edges[s][j]]
      BY DEF Restrict
    <2>2. DOMAIN edges[s] \subseteq Nat /\ edges[s] \in [DOMAIN edges[s] -> DOMAIN nodes]
      BY <1>1 DEF Drawn
    <2> HIDE DEF left
    <2> QED BY <2>1, <2>2
  <1> HIDE DEF left
  <1>4. edges'[s] = left /\ (\A n \in DOMAIN nodes \ {s} : edges'[n] = edges[n]) /\ DOMAIN edges' = DOMAIN nodes
    BY <1>1, <1>2 DEF Drawn
  <1> QED BY <1>1, <1>2, <1>3, <1>4 DEF Drawn

(* A node deleted by the delete key.                                       *)
LEMMA NodeChangedDrawn ==
  ASSUME Built(nodes), NEW n \in DOMAIN nodes, onNodesChange(n)
  PROVE  Typed(nodes') /\ Drawn(nodes', edges')
  <1>1. Drawn(nodes, edges) /\ Typed(nodes)
    BY CalculatedEdges DEF onNodesChange, Built
  <1>2. /\ DOMAIN nodes' = DOMAIN nodes \ {n} /\ nodes' = [m \in DOMAIN nodes' |-> nodes'[m]]
        /\ \A m \in DOMAIN nodes \ {n} : nodes'[m] = nodes[m]
        /\ DOMAIN edges' = DOMAIN nodes \ {n}
        /\ \A m \in DOMAIN nodes \ {n} :
             edges'[m] = [i \in {j \in DOMAIN edges[m] : edges[m][j] # n} |-> edges[m][i]]
    BY DEF onNodesChange, RestrictValues, Restrict
  <1>3. Typed(nodes')
    BY <1>1, <1>2 DEF Typed
  <1>4. Drawn(nodes', edges')
    <2> SUFFICES ASSUME NEW m \in DOMAIN nodes \ {n}
                 PROVE  DOMAIN edges'[m] \subseteq Nat /\ edges'[m] \in [DOMAIN edges'[m] -> DOMAIN nodes']
      BY <1>2 DEF Drawn
    <2>1. DOMAIN edges[m] \subseteq Nat /\ edges[m] \in [DOMAIN edges[m] -> DOMAIN nodes]
      BY <1>1 DEF Drawn
    <2> DEFINE other == {j \in DOMAIN edges[m] : edges[m][j] # n}
    <2>2. edges'[m] = [i \in other |-> edges[m][i]]
      BY <1>2
    <2>3. other \subseteq DOMAIN edges[m] /\ \A i \in other : edges[m][i] \in DOMAIN nodes \ {n}
      BY <2>1
    <2> HIDE DEF other
    <2> QED BY <1>2, <2>1, <2>2, <2>3
  <1> QED BY <1>3, <1>4

--------------------------------------------------------------------------------
BuilderInv == TypeOK /\ (~ bypassed => Built(nodes))

(* The inductive invariant holds of the initial flow ...                   *)
LEMMA BuilderInit ==
  Init => BuilderInv
  <1> SUFFICES ASSUME Init PROVE BuilderInv
    OBVIOUS
  <1>1. nodes = initialNodes /\ edges = calculateEdges(initialNodes) /\ bypassed = FALSE
    BY DEF Init
  <1>2. Built(nodes)
    BY <1>1, InitialBuilt
  <1>3. Drawn(nodes, edges)
    BY <1>1, <1>2, CalculatedEdges DEF Built
  <1> QED BY <1>1, <1>2, <1>3, TypeOKIs DEF BuilderInv, Built

(* ... is kept by the operations that go by the nodes ...                  *)
LEMMA ByNodesKeeps ==
  ASSUME Built(nodes), ByNodes
  PROVE  Built(nodes') /\ Drawn(nodes', edges')
  <1>1. ASSUME NEW n \in DOMAIN nodes, NEW x \in Fresh, NEW p \in Fresh, NEW type \in {"approval", "condition"},
               NewKeys(type, x, p), insertNodeAfter(type, n, x, p)
        PROVE  Built(nodes') /\ Drawn(nodes', edges')
    BY <1>1, InsertedAfter
  <1>2. ASSUME NEW n \in DOMAIN nodes, NEW x \in Fresh, NEW p \in Fresh, NEW type \in {"approval", "condition"},
               NewKeys(type, x, p), insertNodeBefore(type, n, x, p)
        PROVE  Built(nodes') /\ Drawn(nodes', edges')
    BY <1>2, InsertedBefore
  <1>3. ASSUME NEW n \in DOMAIN nodes, NEW x \in Fresh, fillPlaceholder(n, x)
        PROVE  Built(nodes') /\ Drawn(nodes', edges')
    BY <1>3, PlaceFilled
  <1>4. ASSUME NEW n \in DOMAIN nodes, NEW x \in Fresh, smartRemoveCondition(n, x)
        PROVE  Built(nodes') /\ Drawn(nodes', edges')
    BY <1>4, ConditionRemoved
  <1>5. ASSUME NEW n \in DOMAIN nodes, NEW i \in DOMAIN nodes[n].conditions, removeBranch(n, i)
        PROVE  Built(nodes') /\ Drawn(nodes', edges')
    BY <1>5, BranchRemoved
  <1>6. ASSUME NEW s \in DOMAIN nodes, NEW t \in DOMAIN nodes, onConnect(s, t)
        PROVE  Built(nodes') /\ Drawn(nodes', edges')
    <2>1. nodes' = nodes
      BY <1>6 DEF onConnect
    <2> QED BY <1>6, <2>1, ConnectedDrawn
  <1>7. ASSUME NEW s \in DOMAIN nodes, NEW i \in DOMAIN edges[s], onEdgesChange(s, i)
        PROVE  Built(nodes') /\ Drawn(nodes', edges')
    <2>1. nodes' = nodes
      BY <1>7 DEF onEdgesChange
    <2> QED BY <1>7, <2>1, EdgeChangedDrawn
  <1>8. ASSUME Save PROVE Built(nodes') /\ Drawn(nodes', edges')
    BY <1>8, SavedBuilt
  <1> QED BY <1>1, <1>2, <1>3, <1>4, <1>5, <1>6, <1>7, <1>8 DEF ByNodes

(* ... by those that go by the edges, where these are drawn from the nodes *)
(* ...                                                                     *)
LEMMA ByEdgesKeeps ==
  ASSUME Built(nodes), ByEdges
  PROVE  /\ Typed(nodes') /\ Drawn(nodes', edges')
         /\ edges = calculateEdges(nodes) => Built(nodes')
  <1>1. ASSUME NEW n \in DOMAIN nodes, NEW x \in Fresh, NewKey(x), addConditionBranch(n, x)
        PROVE  /\ Typed(nodes') /\ Drawn(nodes', edges')
               /\ edges = calculateEdges(nodes) => Built(nodes')
    BY <1>1, BranchDrawn, BranchAdded DEF Built
  <1>2. ASSUME NEW n \in DOMAIN nodes, smartRemoveNode(n)
        PROVE  /\ Typed(nodes') /\ Drawn(nodes', edges')
               /\ edges = calculateEdges(nodes) => Built(nodes')
    BY <1>2, NodeRemoved
  <1> QED BY <1>1, <1>2 DEF ByEdges

(* ... and by every step.                                                  *)
LEMMA BuilderStep ==
  BuilderInv /\ [Next]_vars => BuilderInv'
  <1> SUFFICES ASSUME BuilderInv, [Next]_vars PROVE BuilderInv'
    OBVIOUS
  <1>1. CASE UNCHANGED vars
    <2>1. nodes' = nodes /\ edges' = edges /\ bypassed' = bypassed
      BY <1>1 DEF vars
    <2>2. TypeOK'
      BY <2>1 DEF BuilderInv, TypeOK
    <2> QED BY <2>1, <2>2 DEF BuilderInv
  <1>2. CASE Next
    <2>1. bypassed = FALSE /\ Built(nodes)
      <3>1. ~ bypassed /\ bypassed \in BOOLEAN
        BY <1>2 DEF Next, BuilderInv, TypeOK
      <3> QED BY <3>1 DEF BuilderInv
    <2>2. CASE ByNodes /\ UNCHANGED bypassed
      <3>1. Built(nodes') /\ Drawn(nodes', edges')
        BY <2>1, <2>2, ByNodesKeeps
      <3>2. bypassed' \in BOOLEAN
        BY <2>1, <2>2
      <3> QED BY <3>1, <3>2, TypeOKIsAfter DEF BuilderInv, Built
    <2>3. CASE ByEdges /\ bypassed' = (edges # calculateEdges(nodes))
      <3>1. /\ Typed(nodes') /\ Drawn(nodes', edges')
            /\ edges = calculateEdges(nodes) => Built(nodes')
        BY <2>1, <2>3, ByEdgesKeeps
      <3>2. bypassed' \in BOOLEAN /\ (~ bypassed' => edges = calculateEdges(nodes))
        BY <2>3
      <3>3. TypeOK'
        BY <3>1, <3>2, TypeOKIsAfter
      <3> QED BY <3>1, <3>2, <3>3 DEF BuilderInv
    <2>4. CASE \E n \in DOMAIN nodes : onNodesChange(n) /\ bypassed' = TRUE
      <3>1. Typed(nodes') /\ Drawn(nodes', edges')
        BY <2>1, <2>4, NodeChangedDrawn
      <3>2. TypeOK'
        BY <2>4, <3>1, TypeOKIsAfter
      <3> QED BY <2>4, <3>2 DEF BuilderInv
    <2> QED BY <1>2, <2>2, <2>3, <2>4 DEF Next
  <1> QED BY <1>1, <1>2

(* A flow stays as the editor means it to be, and its nodes and edges keep *)
(* their types: no sequence of insertions, removals, replacements, new and *)
(* removed branches, dragged or deleted edges, saving and loading makes    *)
(* the links, parents, branches and joins of useFlowStore disagree, until  *)
(* an edit passes the links by.                                            *)
THEOREM FlowStaysBuilt == Spec => []BuilderInv
  BY BuilderInit, BuilderStep, PTL DEF Spec

--------------------------------------------------------------------------------
(* The properties.                                                         *)

(* The parents that every operation writes by itself are the nodes that    *)
(* lead to a node, for flows of any size (insertNodeAfter to               *)
(* removeBranch).                                                          *)
THEOREM ParentsAlwaysAgree == Spec => []ParentsAgree
  <1>1. BuilderInv => ParentsAgree
    BY ParentsAre DEF BuilderInv, ParentsAgree
  <1> QED BY <1>1, FlowStaysBuilt, PTL

(* Every branch of every condition leads to a node of its own, which is    *)
(* neither the end nor a join: smartRemoveNode leaves an empty place where *)
(* a node was all that its branch had, and what is inserted at the head of *)
(* a branch is in this branch alone.                                       *)
THEOREM NoBranchIsEmpty == Spec => []NoEmptyBranch
  <1>1. BuilderInv => NoEmptyBranch
    <2> SUFFICES ASSUME BuilderInv, ~ bypassed, NEW k \in DOMAIN nodes, nodes[k].type = "condition",
                        NEW i \in DOMAIN nodes[k].conditions
                 PROVE  nodes[k].conditions[i] \in DOMAIN nodes /\ ~ IsShared(nodes, nodes[k].conditions[i])
      BY DEF NoEmptyBranch, NodesOf
    <2>1. Built(nodes)
      BY DEF BuilderInv
    <2>2. k # "end-node"
      BY <2>1 DEF Built, Ends
    <2>3. nodes[k].conditions[i] \in NextNodes(nodes, k)
      BY DEF NextNodes, ToSet
    <2>4. nodes[k].conditions[i] \in DOMAIN nodes
      BY <2>1, <2>2, <2>3 DEF Built, Linked
    <2>5. nodes[k].conditions[i] \notin Joins(Successors(nodes))
      BY <2>1, <2>3 DEF Built, Parted
    <2> QED BY <2>1, <2>4, <2>5, BuiltFacts
  <1> QED BY <1>1, FlowStaysBuilt, PTL

(* The search of smartRemoveNode for the node that a condition's branches  *)
(* are reconnected to finds exactly one, whatever order it looks in: all   *)
(* branches of a condition come together in one node.                      *)
THEOREM OneReconnectionTarget ==
  Spec => [](~ bypassed => \A r \in NodesOf(nodes, "condition") : \E z \in DOMAIN nodes : reconnectionTargets(r) = {z})
  <1>1. BuilderInv => (~ bypassed => \A r \in NodesOf(nodes, "condition") :
                                       \E z \in DOMAIN nodes : reconnectionTargets(r) = {z})
    <2> SUFFICES ASSUME BuilderInv, ~ bypassed, NEW r \in DOMAIN nodes, nodes[r].type = "condition"
                 PROVE  \E z \in DOMAIN nodes : reconnectionTargets(r) = {z}
      BY DEF NodesOf
    <2>1. Built(nodes) /\ Core(Successors(nodes)) /\ DOMAIN Successors(nodes) = DOMAIN nodes
      BY BuiltFacts DEF BuilderInv, Built
    <2>2. r # "end-node"
      BY <2>1 DEF Built, Ends
    <2>3. PICK rank, J : Layers(Successors(nodes), Joins(Successors(nodes)), rank, J)
      BY <2>1 DEF Core, Layered
    <2>4. PICK c \in Successors(nodes)[r] : TRUE
      BY <2>1, <2>2 DEF Core
    <2>5. (\A m \in Successors(nodes)[r] : J[m] = J[c]) /\ J[c] \in DOMAIN nodes
      BY <2>1, <2>3, <2>4 DEF Layers
    <2>6. reconnectionTargets(r) = {J[c]}
      BY <2>1, <2>2, <2>3, <2>5, OneJoin
    <2> QED BY <2>5, <2>6
  <1> QED BY <1>1, FlowStaysBuilt, PTL

--------------------------------------------------------------------------------
(* Everything is reached from the form, and leads to the end.              *)
LEMMA AllReached ==
  ASSUME NEW g, Built(g)
  PROVE  validateReachability(g)
  <1> DEFINE next == Successors(g)
             D == DOMAIN g
             R == Reach(next, {"form-node"})
  <1>1. /\ DOMAIN next = D /\ Core(next) /\ "form-node" \in D /\ IsFiniteSet(D)
        /\ \A n \in D : next[n] \subseteq D
    <2>1. IsFiniteSet(D)
      BY KeysAre, FS_Subset DEF Built, Typed
    <2> QED BY <2>1, BuiltFacts DEF Built, Core
  <1>2. NodesOf(g, "form") = {"form-node"}
    BY <1>1 DEF NodesOf, Built, Ends
  <1>3. PICK rank, J : Layers(next, Joins(next), rank, J)
    BY <1>1 DEF Core, Layered
  <1> HIDE DEF next
  <1>4. "form-node" \in R /\ R \subseteq D
    BY <1>1, ReachBegins
  <1>5. \A n \in R : \A m \in next[n] : m \in R
    BY <1>1, ReachGoesOn
  <1> HIDE DEF R
  <1>6. SUFFICES ASSUME D \ R # {} PROVE FALSE
    BY <1>2, <1>4 DEF validateReachability, R, next
  <1>7. PICK n \in D \ R : \A m \in D \ R : rank[n] <= rank[m]
    <2>1. D \ R \in SUBSET D /\ \A m \in D \ R : rank[m] \in Nat
      BY <1>1, <1>3 DEF Layers
    <2> QED BY <1>1, <1>6, <2>1, SomeIsFirst
  <1>8. PICK m \in D : n \in next[m]
    BY <1>1, <1>4, <1>7 DEF Core, Preds
  <1>9. rank[m] < rank[n] /\ rank[m] \in Nat /\ rank[n] \in Nat
    BY <1>1, <1>3, <1>8, EdgeFacts
  <1> QED BY <1>5, <1>7, <1>8, <1>9

(* ... and every node leads to the end: of those that do not, a last one   *)
(* would lead nowhere.                                                     *)
LEMMA AllEnd ==
  ASSUME NEW g, Built(g), NEW n \in DOMAIN g
  PROVE  "end-node" \in Reach(Successors(g), {n})
  <1> DEFINE next == Successors(g)
             D == DOMAIN g
             R == Reach(next, {n})
  <1>1. /\ DOMAIN next = D /\ Core(next) /\ IsFiniteSet(D)
        /\ \A k \in D : next[k] \subseteq D
    <2>1. IsFiniteSet(D)
      BY KeysAre, FS_Subset DEF Built, Typed
    <2> QED BY <2>1, BuiltFacts DEF Built, Core
  <1>2. PICK rank, J : Layers(next, Joins(next), rank, J)
    BY <1>1 DEF Core, Layered
  <1> HIDE DEF next
  <1>3. n \in R /\ R \subseteq D
    BY <1>1, ReachBegins
  <1>4. \A k \in R : \A m \in next[k] : m \in R
    BY <1>1, ReachGoesOn
  <1> HIDE DEF R
  <1>5. PICK m \in R : \A k \in R : rank[k] <= rank[m]
    <2>1. R \in SUBSET D /\ R # {} /\ \A k \in R : rank[k] \in Nat
      BY <1>1, <1>2, <1>3 DEF Layers
    <2> QED BY <1>1, <2>1, SomeIsLast
  <1>6. next[m] = {}
    <2> SUFFICES ASSUME NEW k \in next[m] PROVE FALSE
      OBVIOUS
    <2>1. m \in D /\ k \in R
      BY <1>3, <1>4
    <2>2. rank[m] < rank[k] /\ rank[m] \in Nat /\ rank[k] \in Nat
      BY <1>1, <1>2, <2>1, EdgeFacts
    <2> QED BY <1>5, <2>1, <2>2
  <1>7. m = "end-node"
    BY <1>1, <1>3, <1>6 DEF Core
  <1> QED BY <1>7 DEF R, next

(* Every node is reached from the form and leads to the end: no removal    *)
(* (_deleteNode, deleteSubtree) cuts off a part of the flow.               *)
THEOREM NothingIsCutOff == Spec => []NothingCutOff
  <1>1. BuilderInv => NothingCutOff
    BY AllReached, AllEnd DEF BuilderInv, NothingCutOff
  <1> QED BY <1>1, FlowStaysBuilt, PTL

--------------------------------------------------------------------------------
(* What is built is what the validation of the backend accepts.            *)
LEMMA BuiltIsValid ==
  ASSUME NEW g, Built(g)
  PROVE  validateFlowDefinition(g)
  <1> DEFINE next == Successors(g)
             D == DOMAIN g
  <1>1. /\ DOMAIN next = D /\ Core(next) /\ "form-node" \in D /\ "end-node" \in D
        /\ Ends(g) /\ Linked(g)
        /\ \A n \in D : next[n] = IF n = "end-node" THEN {} ELSE NextNodes(g, n)
    BY BuiltFacts DEF Built
  <1>2. NodesOf(g, "form") = {"form-node"} /\ NodesOf(g, "end") = {"end-node"}
    BY <1>1 DEF NodesOf, Ends
  <1>3. ASSUME NEW n \in NodesOf(g, "condition") PROVE g[n].conditions # << >>
    <2>1. n \in D /\ n # "end-node" /\ g[n].type = "condition"
      BY <1>1 DEF NodesOf, Ends
    <2>2. ToSet(g[n].conditions) # {}
      BY <1>1, <2>1 DEF Core, NextNodes
    <2>3. ToSet(<< >>) = {}
      BY DEF ToSet
    <2> QED BY <2>2, <2>3
  <1>4. validateNodeNexts(g)
    BY <1>1 DEF validateNodeNexts, Linked, Ends
  <1>5. ASSUME NEW n \in D PROVE n \notin Reach(next, next[n])
    <2>1. PICK rank, J : Layers(next, Joins(next), rank, J)
      BY <1>1 DEF Core, Layered
    <2> HIDE DEF next
    <2> DEFINE T == {m \in D : rank[n] < rank[m]}
    <2>2. \A k \in D : rank[k] \in Nat
      BY <1>1, <2>1 DEF Layers
    <2>3. next[n] \subseteq T
      BY <1>1, <2>1, EdgeFacts
    <2>4. \A m \in T : next[m] \subseteq T
      <3> SUFFICES ASSUME NEW m \in T, NEW k \in next[m] PROVE k \in T
        OBVIOUS
      <3>1. k \in D /\ rank[m] < rank[k]
        BY <1>1, <2>1, EdgeFacts
      <3> QED BY <2>2, <3>1
    <2>5. T \subseteq DOMAIN next /\ n \notin T
      BY <1>1, <2>2
    <2> HIDE DEF T
    <2>6. Reach(next, next[n]) \subseteq T
      BY <2>3, <2>4, <2>5, ReachStays
    <2> QED BY <2>5, <2>6
  <1>6. ~ detectCircularReferences(g)
    BY <1>5 DEF detectCircularReferences
  <1>7. validateReachability(g)
    BY AllReached
  <1>8. (\E s \in DOMAIN g : NodesOf(g, "form") = {s}) /\ (\E e \in DOMAIN g : NodesOf(g, "end") = {e})
    BY <1>1, <1>2
  <1> QED BY <1>3, <1>4, <1>6, <1>7, <1>8 DEF validateFlowDefinition

(* What validateNodes of the editor lets pass, validateFlowDefinition of   *)
(* the backend accepts, and no empty place is left in it: it has one form  *)
(* and one end, everything is reached, and it has no cycle.                *)
THEOREM SavedFlowsAreValid == Spec => []SavedIsValid
  <1>1. BuilderInv => SavedIsValid
    <2> SUFFICES ASSUME BuilderInv, ~ bypassed, validateNodes(nodes)
                 PROVE  validateFlowDefinition(parseFlow(nodes)) /\ NodesOf(nodes, "placeholder") = {}
      BY DEF SavedIsValid
    <2>1. Built(nodes)
      BY DEF BuilderInv
    <2>2. Built(parseFlow(nodes))
      BY <2>1, ParsedResembles, ResemblesBuilt
    <2> QED BY <2>1, <2>2, BuiltIsValid, NoPlaces
  <1> QED BY <1>1, FlowStaysBuilt, PTL

--------------------------------------------------------------------------------
(* What was executed is what leads there from the form, and leads on.      *)
LEMMA ExecutionIs ==
  ASSUME NEW g, Built(g), NEW X \in Executions(g)
  PROVE  /\ X \subseteq DOMAIN g
         /\ \A n \in X : n # "form-node" => \E m \in X : n \in Successors(g)[m]
         /\ \A k \in X : g[k].type = "condition" => \E m \in X : m \in NextNodes(g, k)
         /\ "form-node" \in X
         /\ \A n \in X : g[n].type \notin {"condition", "end"} => g[n].next \in X
  <1> DEFINE D == DOMAIN g
             next == Successors(g)
             SomeLeft(cut) == \A k \in NodesOf(g, "condition") : \E m \in NextNodes(g, k) : <<k, m>> \notin cut
             Taken(cut) == [n \in D |-> {m \in next[n] : <<n, m>> \notin cut}]
             Ways == UNION {{k} \X NextNodes(g, k) : k \in NodesOf(g, "condition")}
  <1>1. PICK cut \in SUBSET Ways : SomeLeft(cut) /\ X = Reach(Taken(cut), NodesOf(g, "form"))
    BY DEF Executions
  <1>2. /\ DOMAIN next = D /\ (\A n \in D : next[n] \subseteq D) /\ NodesOf(g, "form") = {"form-node"}
        /\ Linked(g) /\ Ends(g) /\ "form-node" \in D
        /\ \A n \in D : next[n] = IF n = "end-node" THEN {} ELSE NextNodes(g, n)
    BY BuiltFacts DEF Built, Core, NodesOf, Ends
  <1> DEFINE f == Taken(cut)
  <1>3. DOMAIN f = D /\ \A n \in D : f[n] = {m \in next[n] : <<n, m>> \notin cut}
    OBVIOUS
  <1>4. X = Reach(f, {"form-node"})
    BY <1>1, <1>2
  <1>5. \A n \in DOMAIN f : f[n] \subseteq DOMAIN f
    BY <1>2, <1>3
  <1> HIDE DEF f, next
  <1>6. X \subseteq D /\ "form-node" \in X
    BY <1>2, <1>3, <1>4, ReachBegins
  <1>7. ASSUME NEW n \in X, n # "form-node" PROVE \E m \in X : n \in next[m]
    <2>1. PICK m \in X : n \in f[m]
      <3>1. n \in Reach(f, {"form-node"}) /\ n \notin {"form-node"} /\ {"form-node"} \subseteq DOMAIN f
        BY <1>2, <1>3, <1>4, <1>7
      <3> QED BY <1>4, <1>5, <3>1, ReachComesFrom
    <2> QED BY <1>3, <1>6, <2>1
  <1>8. \A n \in X : \A m \in f[n] : m \in X
    BY <1>4, <1>5, ReachGoesOn
  <1>9. ASSUME NEW k \in X, g[k].type = "condition" PROVE \E m \in X : m \in NextNodes(g, k)
    <2>1. k \in NodesOf(g, "condition") /\ k # "end-node"
      BY <1>2, <1>6, <1>9 DEF NodesOf, Ends
    <2>2. PICK m \in NextNodes(g, k) : <<k, m>> \notin cut
      BY <1>1, <2>1
    <2>3. m \in f[k]
      BY <1>2, <1>3, <1>6, <2>1, <2>2
    <2> QED BY <1>8, <2>2, <2>3
  <1>10. ASSUME NEW n \in X, g[n].type \notin {"condition", "end"} PROVE g[n].next \in X
    <2>1. n \in D /\ n # "end-node" /\ NextNodes(g, n) = {g[n].next}
      BY <1>2, <1>6, <1>10 DEF Ends, NextNodes
    <2>2. <<n, g[n].next>> \notin cut
      <3> SUFFICES ASSUME <<n, g[n].next>> \in cut PROVE FALSE
        OBVIOUS
      <3>1. PICK k \in NodesOf(g, "condition") : <<n, g[n].next>> \in {k} \X NextNodes(g, k)
        BY <1>1
      <3>2. n = k
        BY <3>1
      <3> QED BY <1>10, <3>1, <3>2 DEF NodesOf
    <2>3. g[n].next \in f[n]
      BY <1>2, <1>3, <2>1, <2>2
    <2> QED BY <1>8, <2>3
  <1> QED BY <1>6, <1>7, <1>9, <1>10 DEF next

(* The smallest set that holds the executed approvals, and every condition *)
(* one of whose branches it holds, is what was executed: the first node of *)
(* a branch has only its condition before it.                              *)
LEMMA InferredIs ==
  ASSUME NEW g, Built(g), NodesOf(g, "placeholder") = {}, NEW X \in Executions(g)
  PROVE  inferTraversedNodes(g, X \cap NodesOf(g, "approval"))
           = X \cap (NodesOf(g, "approval") \cup NodesOf(g, "condition"))
  <1> DEFINE D == DOMAIN g
             next == Successors(g)
             A == X \cap NodesOf(g, "approval")
             Y == X \cap (NodesOf(g, "approval") \cup NodesOf(g, "condition"))
             complete == {T \in SUBSET D : A \subseteq T /\ Inferred(g, T) = {}}
  <1>1. /\ DOMAIN next = D /\ Core(next) /\ Ends(g) /\ Linked(g) /\ Parted(g) /\ IsFiniteSet(D)
        /\ \A n \in D : next[n] = IF n = "end-node" THEN {} ELSE NextNodes(g, n)
        /\ \A n \in D : g[n].type \in Types
    <2>1. IsFiniteSet(D) /\ \A n \in D : g[n].type \in Types
      BY KeysAre, FS_Subset DEF Built, Typed, NodeSet
    <2> QED BY <2>1, BuiltFacts DEF Built
  <1>2. /\ X \subseteq D
        /\ \A n \in X : n # "form-node" => \E m \in X : n \in next[m]
        /\ \A k \in X : g[k].type = "condition" => \E m \in X : m \in NextNodes(g, k)
    BY ExecutionIs
  <1>3. ASSUME NEW k \in D, g[k].type = "condition", NEW m \in NextNodes(g, k)
        PROVE  /\ k # "end-node" /\ m \in D /\ m \in next[k] /\ m # "form-node" /\ m # "end-node"
               /\ \A n \in D : m \in next[n] => n = k
    <2>1. k # "end-node"
      BY <1>1, <1>3 DEF Ends
    <2>2. m \in next[k] /\ m \in D /\ m # "form-node"
      BY <1>1, <1>3, <2>1 DEF Core
    <2>3. m \notin Joins(next)
      BY <1>1, <1>3 DEF Parted
    <2>4. m # "end-node" /\ ~ Several(Preds(next, m))
      BY <1>1, <2>2, <2>3 DEF Joins
    <2>5. ASSUME NEW n \in D, m \in next[n] PROVE n = k
      BY <1>1, <2>2, <2>4, <2>5 DEF Several, Preds
    <2> QED BY <2>1, <2>2, <2>4, <2>5
  <1>4. inferTraversedNodes(g, A) = {n \in D : \A T \in complete : n \in T}
    BY DEF inferTraversedNodes
  <1>5. Y \in complete
    <2>1. ASSUME NEW k \in Inferred(g, Y) PROVE FALSE
      <3>1. k \in D /\ g[k].type = "condition" /\ k \notin Y
        BY <2>1 DEF Inferred, NodesOf
      <3>2. PICK m \in NextNodes(g, k) : m \in Y
        BY <2>1, <3>1 DEF Inferred, NextNodes
      <3>3. m # "form-node"
        BY <1>3, <3>1
      <3>4. PICK n \in X : m \in next[n]
        BY <1>2, <3>2, <3>3
      <3>5. n = k
        BY <1>2, <1>3, <3>1, <3>4
      <3> QED BY <3>1, <3>4, <3>5 DEF NodesOf
    <2>2. Y \in SUBSET D /\ A \subseteq Y
      BY <1>2
    <2> QED BY <2>1, <2>2
  <1>6. ASSUME NEW T \in complete PROVE Y \subseteq T
    <2> DEFINE Q == (X \cap NodesOf(g, "condition")) \ T
    <2>1. A \subseteq T /\ Inferred(g, T) = {}
      OBVIOUS
    <2>2. Q = {}
      <3> SUFFICES ASSUME Q # {} PROVE FALSE
        OBVIOUS
      <3>1. PICK rank, J : Layers(next, Joins(next), rank, J)
        BY <1>1 DEF Core, Layered
      <3> HIDE DEF next
      <3>2. PICK k \in Q : \A n \in Q : rank[n] <= rank[k]
        <4>1. Q \in SUBSET D /\ \A n \in Q : rank[n] \in Nat
          BY <1>1, <1>2, <3>1 DEF Layers
        <4> HIDE DEF Q
        <4> QED BY <1>1, <4>1, SomeIsLast
      <3>3. k \in D /\ k \in X /\ g[k].type = "condition" /\ k \notin T
        BY <1>2 DEF NodesOf
      <3>4. PICK m \in X : m \in NextNodes(g, k)
        BY <1>2, <3>3
      <3>5. m \in D /\ m \in next[k] /\ m # "form-node" /\ m # "end-node"
        BY <1>3, <3>3, <3>4
      <3>6. g[m].type \in {"approval", "condition"}
        BY <1>1, <3>5 DEF Ends, Types, NodesOf
      <3>7. m \in T
        <4>1. CASE g[m].type = "approval"
          BY <2>1, <3>4, <3>5, <4>1 DEF NodesOf
        <4>2. CASE g[m].type = "condition"
          <5>1. rank[k] < rank[m] /\ rank[k] \in Nat /\ rank[m] \in Nat
            BY <1>1, <3>1, <3>3, <3>5, EdgeFacts
          <5>2. m \notin Q
            BY <3>2, <5>1
          <5> QED BY <3>4, <3>5, <4>2, <5>2 DEF NodesOf
        <4> QED BY <3>6, <4>1, <4>2
      <3>8. k \in Inferred(g, T)
        BY <3>3, <3>4, <3>7 DEF Inferred, NodesOf, NextNodes
      <3> QED BY <2>1, <3>8
    <2> QED BY <2>1, <2>2
  <1> HIDE DEF complete
  <1>7. Y \subseteq D
    BY <1>2
  <1> QED BY <1>4, <1>5, <1>6, <1>7

(* The conditions that the flow engine infers from the approvals with rows *)
(* (inferTraversedNodes) are those the application went through: none is   *)
(* missed and none is added, whatever branches were taken.                 *)
THEOREM InferenceIsExact == Spec => []InferredWasTraversed
  <1>1. BuilderInv => InferredWasTraversed
    BY NoPlaces, InferredIs DEF BuilderInv, InferredWasTraversed
  <1> QED BY <1>1, FlowStaysBuilt, PTL

--------------------------------------------------------------------------------
(* What comes before a node in any case.                                   *)

(* The paths back from a node are worked out from those of the nodes       *)
(* before it, with the nodes of the path so far left out.                  *)
Trails(D) == D \X SUBSET D

Visited(at) == at[2] \cup {at[1]}

PathsFrom(g, preds, f, at) ==
  IF g[at[1]].type = "form" THEN {{at[1]}}
  ELSE UNION {{{at[1]} \cup p : p \in f[<<m, Visited(at)>>]} : m \in preds[at[1]] \ Visited(at)}

PathsOf(g, preds, f) == f = [at \in Trails(DOMAIN g) |-> PathsFrom(g, preds, f, at)]

(* The recursion in findAllPathsToStart, spelled out.                      *)
LEMMA PathsAre ==
  ASSUME NEW g, NEW rejects, NEW n
  PROVE  findAllPathsToStart(g, rejects, n)
           = (CHOOSE f : PathsOf(g, buildPredecessorsMap(g, rejects), f))[<<n, {}>>]
  BY DEF findAllPathsToStart, PathsFrom, Visited, Trails, PathsOf

(* A path of a predecessor gives one of the node.                          *)
LEMMA LongerPath ==
  ASSUME NEW g, NEW preds, NEW f, NEW at, NEW n, at[1] = n, g[n].type # "form",
         NEW V, Visited(at) = V, NEW m \in preds[n] \ V, NEW p \in f[<<m, V>>]
  PROVE  {n} \cup p \in PathsFrom(g, preds, f, at)
  <1>1. PathsFrom(g, preds, f, at) = UNION {{{n} \cup q : q \in f[<<k, V>>]} : k \in preds[n] \ V}
    BY DEF PathsFrom
  <1>2. {n} \cup p \in {{n} \cup q : q \in f[<<m, V>>]}
    OBVIOUS
  <1> QED BY <1>1, <1>2

(* The paths from a node depend on those of its predecessors only.         *)
LEMMA SamePaths ==
  ASSUME NEW g, NEW preds, NEW f, NEW h, NEW at,
         \A m \in preds[at[1]] \ Visited(at) : f[<<m, Visited(at)>>] = h[<<m, Visited(at)>>]
  PROVE  PathsFrom(g, preds, f, at) = PathsFrom(g, preds, h, at)
  <1> DEFINE B == preds[at[1]] \ Visited(at)
             F(m) == {{at[1]} \cup p : p \in f[<<m, Visited(at)>>]}
             H(m) == {{at[1]} \cup p : p \in h[<<m, Visited(at)>>]}
  <1>1. \A m \in B : F(m) = H(m)
    OBVIOUS
  <1>2. {F(m) : m \in B} = {H(m) : m \in B}
    <2> HIDE DEF F, H, B
    <2> QED BY <1>1
  <1> QED BY <1>2 DEF PathsFrom

(* A function of paths exists: a path that is longer leaves fewer nodes.   *)
LEMMA PathsExist ==
  ASSUME NEW g, IsFiniteSet(DOMAIN g), NEW preds, \A n \in DOMAIN g : preds[n] \subseteq DOMAIN g
  PROVE  \E f : PathsOf(g, preds, f)
  <1> DEFINE D == DOMAIN g
             left(at) == Cardinality(D \ Visited(at))
             c == Cardinality(D)
             Known(k) == {at \in Trails(D) : left(at) < k}
             Solves(k, f) == \A at \in Known(k) : f[at] = PathsFrom(g, preds, f, at)
             T == {k \in 0 .. c + 1 : ~ \E f : Solves(k, f)}
  <1>1. c \in Nat /\ \A at \in Trails(D) : left(at) \in Nat /\ left(at) <= c
    <2>1. \A S \in SUBSET D : IsFiniteSet(S) /\ Cardinality(S) \in Nat /\ Cardinality(S) <= c
      BY FS_Subset, FS_CardinalityType
    <2> QED BY <2>1
  <1>2. ASSUME NEW at \in Trails(D), NEW m \in preds[at[1]] \ Visited(at)
        PROVE  <<m, Visited(at)>> \in Trails(D) /\ left(<<m, Visited(at)>>) < left(at)
    <2> DEFINE V == Visited(at)
    <2>1. at[1] \in D /\ at[2] \in SUBSET D
      BY DEF Trails
    <2>2. V \in SUBSET D
      BY <2>1 DEF Visited
    <2>3. m \in D /\ m \notin V
      BY <2>1
    <2>4. Visited(<<m, V>>) = V \cup {m}
      BY DEF Visited
    <2>5. Cardinality(D \ (V \cup {m})) < Cardinality(D \ V)
      <3> DEFINE A == D \ V
                 B == D \ (V \cup {m})
      <3>1. B \subseteq A /\ B # A /\ IsFiniteSet(A) /\ IsFiniteSet(B)
        <4>1. A \subseteq D /\ B \subseteq D
          OBVIOUS
        <4>2. IsFiniteSet(A) /\ IsFiniteSet(B)
          BY <4>1, FS_Subset
        <4> QED BY <2>3, <4>2
      <3> HIDE DEF A, B
      <3>2. Cardinality(A) \in Nat /\ Cardinality(B) \in Nat
        BY <3>1, FS_CardinalityType
      <3>3. Cardinality(B) <= Cardinality(A) /\ Cardinality(B) # Cardinality(A)
        BY <3>1, FS_Subset
      <3> QED BY <3>2, <3>3 DEF A, B
    <2> QED BY <2>2, <2>3, <2>4, <2>5 DEF Trails
  <1> HIDE DEF left, c
  <1>3. T = {}
    <2> SUFFICES ASSUME T # {} PROVE FALSE
      OBVIOUS
    <2> DEFINE I == [k \in 0 .. c + 1 |-> k]
    <2>1. PICK k \in T : \A j \in T : I[k] <= I[j]
      <3>1. IsFiniteSet(0 .. c + 1)
        BY <1>1, FS_Interval
      <3>2. T \in SUBSET (0 .. c + 1) /\ \A j \in T : I[j] \in Nat
        BY <1>1
      <3> HIDE DEF T, I
      <3> QED BY <3>1, <3>2, SomeIsFirst
    <2>2. k \in 0 .. c + 1 /\ \A j \in T : k <= j
      BY <2>1
    <2>3. k # 0
      <3>1. Known(0) = {}
        BY <1>1
      <3> QED BY <3>1
    <2>4. k - 1 \in 0 .. c + 1 /\ k - 1 \notin T
      BY <1>1, <2>2, <2>3
    <2>5. PICK f : Solves(k - 1, f)
      BY <2>4
    <2> DEFINE h == [at \in Trails(D) |-> PathsFrom(g, preds, f, at)]
    <2>6. \A at \in Known(k - 1) : h[at] = f[at]
      BY <2>5
    <2>7. ASSUME NEW at \in Known(k) PROVE h[at] = PathsFrom(g, preds, h, at)
      <3>1. ASSUME NEW m \in preds[at[1]] \ Visited(at)
            PROVE  f[<<m, Visited(at)>>] = h[<<m, Visited(at)>>]
        <4>1. <<m, Visited(at)>> \in Known(k - 1)
          BY <1>1, <1>2, <2>2
        <4> HIDE DEF h, Known
        <4> QED BY <2>6, <4>1
      <3>2. h[at] = PathsFrom(g, preds, f, at)
        OBVIOUS
      <3> HIDE DEF h
      <3> QED BY <3>1, <3>2, SamePaths
    <2>8. Solves(k, h)
      BY <2>7
    <2> QED BY <2>8
  <1>4. PICK f : Solves(c + 1, f)
    <2>1. c + 1 \in 0 .. c + 1
      BY <1>1
    <2> HIDE DEF Solves
    <2> QED BY <1>3, <2>1
  <1>5. Known(c + 1) = Trails(D)
    BY <1>1
  <1> DEFINE h == [at \in Trails(D) |-> f[at]]
  <1>6. \A at \in Trails(D) : h[at] = PathsFrom(g, preds, h, at)
    <2> TAKE at \in Trails(D)
    <2>1. \A m \in preds[at[1]] \ Visited(at) : f[<<m, Visited(at)>>] = h[<<m, Visited(at)>>]
      BY <1>2
    <2>2. h[at] = PathsFrom(g, preds, f, at)
      BY <1>4, <1>5
    <2> HIDE DEF h
    <2> QED BY <2>1, <2>2, SamePaths
  <1>7. h = [at \in Trails(D) |-> PathsFrom(g, preds, h, at)]
    BY <1>6
  <1> QED BY <1>7 DEF PathsOf

(* Every node of an execution has a path back within the execution.        *)
LEMMA WayBack ==
  ASSUME NEW g, Built(g), NEW X \in Executions(g), NEW preds, NEW f, PathsOf(g, preds, f),
         \A n, m \in DOMAIN g : n \in NextNodes(g, m) => m \in preds[n],
         NEW n \in X
  PROVE  \E p \in f[<<n, {}>>] : p \subseteq X
  <1> DEFINE D == DOMAIN g
             next == Successors(g)
  <1>1. /\ DOMAIN next = D /\ Core(next) /\ Ends(g) /\ IsFiniteSet(D)
        /\ \A m \in D : next[m] \subseteq NextNodes(g, m)
    <2>1. IsFiniteSet(D)
      BY KeysAre, FS_Subset DEF Built, Typed
    <2> QED BY <2>1, BuiltFacts DEF Built, Successors
  <1>2. X \subseteq D /\ \A m \in X : m # "form-node" => \E k \in X : m \in next[k]
    BY ExecutionIs
  <1>3. PICK rank, J : Layers(next, Joins(next), rank, J)
    BY <1>1 DEF Core, Layered
  <1>4. \A at \in Trails(D) : f[at] = PathsFrom(g, preds, f, at)
    <2>1. f = [at \in Trails(D) |-> PathsFrom(g, preds, f, at)]
      BY DEF PathsOf
    <2> QED BY <2>1
  <1> HIDE DEF next
  <1>5. \A m \in D : rank[m] \in Nat
    BY <1>1, <1>3 DEF Layers
  <1> DEFINE Later(m) == {V \in SUBSET D : \A k \in V : rank[m] < rank[k]}
             Lost == {m \in X : \E V \in Later(m) : \A p \in f[<<m, V>>] : ~ p \subseteq X}
  <1>6. Lost = {}
    <2> SUFFICES ASSUME Lost # {} PROVE FALSE
      OBVIOUS
    <2>1. PICK m \in Lost : \A k \in Lost : rank[m] <= rank[k]
      <3>1. Lost \in SUBSET D /\ \A k \in Lost : rank[k] \in Nat
        BY <1>2, <1>5
      <3> HIDE DEF Lost
      <3> QED BY <1>1, <3>1, SomeIsFirst
    <2>2. PICK V \in Later(m) : \A p \in f[<<m, V>>] : ~ p \subseteq X
      OBVIOUS
    <2> DEFINE W == V \cup {m}
    <2>3. m \in X /\ m \in D /\ V \in SUBSET D /\ \A k \in V : rank[m] < rank[k]
      BY <1>2
    <2>4. <<m, V>> \in Trails(D) /\ Visited(<<m, V>>) = W
      BY <2>3 DEF Trails, Visited
    <2>5. f[<<m, V>>] = PathsFrom(g, preds, f, <<m, V>>)
      BY <1>4, <2>4
    <2>6. CASE g[m].type = "form"
      <3>1. {m} \in f[<<m, V>>]
        BY <2>5, <2>6 DEF PathsFrom
      <3> QED BY <2>2, <2>3, <3>1
    <2>7. CASE g[m].type # "form"
      <3>1. m # "form-node"
        BY <1>1, <2>3, <2>7 DEF Ends, NodesOf, Core
      <3>2. PICK k \in X : m \in next[k]
        BY <1>2, <2>3, <3>1
      <3>3. k \in D /\ rank[k] < rank[m] /\ rank[k] \in Nat /\ rank[m] \in Nat
        BY <1>1, <1>2, <1>3, <3>2, EdgeFacts
      <3>4. k \in preds[m] /\ k \notin W
        BY <1>1, <1>5, <2>3, <3>2, <3>3
      <3>5. W \in Later(k)
        BY <1>5, <2>3, <3>3
      <3>6. PICK p \in f[<<k, W>>] : p \subseteq X
        <4>1. k \notin Lost
          <5> HIDE DEF Lost
          <5> QED BY <2>1, <3>3
        <4> HIDE DEF W, Later
        <4> QED BY <3>5, <4>1
      <3>7. {m} \cup p \in f[<<m, V>>]
        <4>1. <<m, V>>[1] = m
          OBVIOUS
        <4> HIDE DEF W
        <4> QED BY <2>4, <2>5, <2>7, <3>4, <3>6, <4>1, LongerPath
      <3> QED BY <2>2, <2>3, <3>6, <3>7
    <2> QED BY <2>6, <2>7
  <1>7. {} \in Later(n)
    OBVIOUS
  <1> QED BY <1>6, <1>7

(* A node on all paths is on the one within the execution.                 *)
LEMMA GuaranteedIs ==
  ASSUME NEW g, Built(g), NEW rejects, NEW X \in Executions(g), NEW n \in X
  PROVE  findGuaranteedPrecedingNodes(g, rejects, n) \subseteq X
  <1> DEFINE preds == buildPredecessorsMap(g, rejects)
             f == CHOOSE h : PathsOf(g, preds, h)
  <1>1. \A m \in DOMAIN g : preds[m] \subseteq DOMAIN g
    BY DEF buildPredecessorsMap
  <1>2. \A m, k \in DOMAIN g : m \in NextNodes(g, k) => k \in preds[m]
    BY DEF buildPredecessorsMap
  <1>3. IsFiniteSet(DOMAIN g)
    BY KeysAre, FS_Subset DEF Built, Typed
  <1>4. findAllPathsToStart(g, rejects, n) = f[<<n, {}>>]
    BY PathsAre
  <1> HIDE DEF preds
  <1>5. PathsOf(g, preds, f)
    BY <1>1, <1>3, PathsExist
  <1> HIDE DEF f
  <1>6. PICK p \in f[<<n, {}>>] : p \subseteq X
    BY <1>2, <1>5, WayBack
  <1> QED BY <1>4, <1>6 DEF findGuaranteedPrecedingNodes, calculatePathIntersection

(* A node that findGuaranteedPrecedingNodes finds before another is        *)
(* executed in every execution that the other is executed in, also where   *)
(* nodes may send back to nodes before them: one path back lies within the *)
(* execution, and the node is on all paths.                                *)
THEOREM GuaranteesHold == Spec => []GuaranteedIsExecuted
  <1>1. BuilderInv => GuaranteedIsExecuted
    BY GuaranteedIs DEF BuilderInv, GuaranteedIsExecuted
  <1> QED BY <1>1, FlowStaysBuilt, PTL

--------------------------------------------------------------------------------
(* The flows that are saved are flows that the engine can execute.         *)

CONSTANTS
  Forms,    \* the form contents that conditions can tell apart
  Selected  \* Selected[f][c]: the branches of c that form f selects

SavedFlow == parseFlow(nodes)

EngineKind(type) ==
  CASE type = "form"      -> "START"
    [] type = "end"       -> "END"
    [] type = "condition" -> "CONDITION"
    [] type = "approval"  -> "APPROVAL"

(* What is saved, as the executor finds it: the constants of FlowGraph.    *)
Engine ==
  INSTANCE FlowGraph WITH
    Nodes    <- DOMAIN SavedFlow,
    Kind     <- [n \in DOMAIN SavedFlow |-> EngineKind(SavedFlow[n].type)],
    NextOf   <- [n \in NodesOf(SavedFlow, "form") \cup NodesOf(SavedFlow, "approval") |-> SavedFlow[n].next],
    Forms    <- Forms,
    Branches <- [f \in Forms |-> [c \in NodesOf(SavedFlow, "condition") |-> Selected[f][c]]]

(* Each form selects some branches of each condition, and each branch is   *)
(* selected by some form.                                                  *)
SelectsBranches ==
  /\ Forms # {}
  /\ \A c \in NodesOf(SavedFlow, "condition") :
       /\ \A f \in Forms : Selected[f][c] \in Seq(NextNodes(SavedFlow, c))
       /\ \A m \in NextNodes(SavedFlow, c) : \E f \in Forms : m \in ToSet(Selected[f][c])

(* The engine's view of a saved flow has the edges of the editor's.        *)
LEMMA EngineViews ==
  ASSUME Built(SavedFlow), NodesOf(SavedFlow, "placeholder") = {}, SelectsBranches
  PROVE  LET next == Successors(SavedFlow) IN
         /\ Engine!WellFormed
         /\ Engine!Start = "form-node"
         /\ Engine!Approvals = NodesOf(SavedFlow, "approval")
         /\ \A n \in DOMAIN SavedFlow : Engine!NextNodes(n) = next[n]
  <1> DEFINE g == SavedFlow
             D == DOMAIN g
             kind == [n \in D |-> EngineKind(g[n].type)]
             branches == [f \in Forms |-> [c \in NodesOf(g, "condition") |-> Selected[f][c]]]
  <1>1. /\ DOMAIN Successors(g) = D /\ Ends(g) /\ "form-node" \in D /\ IsFiniteSet(D)
        /\ \A n \in D : Successors(g)[n] = IF n = "end-node" THEN {} ELSE NextNodes(g, n)
        /\ \A n \in D : Successors(g)[n] \subseteq D
        /\ \A n \in D : g[n].type \in {"form", "approval", "condition", "end"}
    <2>1. IsFiniteSet(D) /\ \A n \in D : g[n].type \in Types
      BY KeysAre, FS_Subset DEF Built, Typed, NodeSet
    <2>2. \A n \in D : g[n].type # "placeholder"
      BY DEF NodesOf
    <2> QED BY <2>1, <2>2, BuiltFacts DEF Built, Core, Types
  <1>2. \A n \in D : /\ kind[n] = "START" <=> g[n].type = "form"
                     /\ kind[n] = "APPROVAL" <=> g[n].type = "approval"
                     /\ kind[n] = "CONDITION" <=> g[n].type = "condition"
                     /\ kind[n] = "END" <=> g[n].type = "end"
                     /\ kind[n] \in {"START", "CONDITION", "APPROVAL", "END"}
    BY <1>1 DEF EngineKind
  <1>3. /\ Engine!Of("START") = {"form-node"}
        /\ Engine!Approvals = NodesOf(g, "approval")
        /\ Engine!Conditions = NodesOf(g, "condition")
        /\ Engine!Linked = NodesOf(g, "form") \cup NodesOf(g, "approval")
    <2>1. /\ Engine!Of("START") = NodesOf(g, "form")
          /\ Engine!Of("APPROVAL") = NodesOf(g, "approval")
          /\ Engine!Of("CONDITION") = NodesOf(g, "condition")
      BY <1>2 DEF Engine!Of, NodesOf
    <2>2. NodesOf(g, "form") = {"form-node"}
      BY <1>1 DEF NodesOf, Ends
    <2> QED BY <2>1, <2>2 DEF Engine!Approvals, Engine!Conditions, Engine!Linked
  <1>4. Engine!Start = "form-node"
    <2>1. \A n \in D : kind[n] = "START" <=> n = "form-node"
      BY <1>1, <1>2 DEF Ends
    <2> HIDE DEF kind
    <2> QED BY <1>1, <2>1 DEF Engine!Start, kind
  <1>5. ASSUME NEW n \in NodesOf(g, "form") \cup NodesOf(g, "approval")
        PROVE  n \in D /\ {g[n].next} = Successors(g)[n] /\ g[n].next \in D
    BY <1>1 DEF NodesOf, NextNodes, Ends
  <1>6. ASSUME NEW c \in NodesOf(g, "condition")
        PROVE  /\ c \in D /\ c \notin NodesOf(g, "form") \cup NodesOf(g, "approval")
               /\ UNION {ToSet(Selected[f][c]) : f \in Forms} = Successors(g)[c]
               /\ \A f \in Forms : Selected[f][c] \in Seq(D)
    <2>1. c \in D /\ Successors(g)[c] = NextNodes(g, c) /\ NextNodes(g, c) \subseteq D
          /\ c \notin NodesOf(g, "form") \cup NodesOf(g, "approval")
      BY <1>1 DEF NodesOf, Ends
    <2>2. \A S \in SUBSET D : \A q \in Seq(S) : ToSet(q) \subseteq S /\ q \in Seq(D)
      BY DEF ToSet
    <2>3. \A f \in Forms : ToSet(Selected[f][c]) \subseteq NextNodes(g, c) /\ Selected[f][c] \in Seq(D)
      BY <2>1, <2>2 DEF SelectsBranches
    <2> QED BY <2>1, <2>3 DEF SelectsBranches
  <1>7. ASSUME NEW n \in D PROVE Engine!NextNodes(n) = Successors(g)[n]
    <2>1. CASE n \in NodesOf(g, "form") \cup NodesOf(g, "approval")
      BY <1>3, <1>5, <2>1 DEF Engine!NextNodes
    <2>2. CASE n \in NodesOf(g, "condition")
      <3>1. Engine!NextNodes(n) = UNION {ToSet(branches[f][n]) : f \in Forms}
        BY <1>3, <1>6, <2>2 DEF Engine!NextNodes, Engine!ToSet, ToSet
      <3>2. \A f \in Forms : branches[f][n] = Selected[f][n]
        BY <2>2
      <3>3. {ToSet(branches[f][n]) : f \in Forms} = {ToSet(Selected[f][n]) : f \in Forms}
        BY <3>2
      <3> QED BY <1>6, <2>2, <3>1, <3>3
    <2>3. CASE n \notin NodesOf(g, "form") \cup NodesOf(g, "approval") \cup NodesOf(g, "condition")
      <3>1. n = "end-node"
        BY <1>1, <2>3 DEF NodesOf, Ends
      <3> QED BY <1>1, <1>3, <2>3, <3>1 DEF Engine!NextNodes
    <2> QED BY <2>1, <2>2, <2>3
  <1>8. Engine!WellFormed
    <2>1. kind \in [D -> {"START", "CONDITION", "APPROVAL", "END"}]
      BY <1>2
    <2>2. [n \in NodesOf(g, "form") \cup NodesOf(g, "approval") |-> g[n].next] \in [Engine!Linked -> D]
      BY <1>3, <1>5
    <2>3. branches \in [Forms -> [Engine!Conditions -> Seq(D)]]
      BY <1>3, <1>6
    <2>4. Forms # {}
      BY DEF SelectsBranches
    <2>5. Engine!IsFiniteSet(D)
      BY <1>1 DEF Engine!IsFiniteSet, IsFiniteSet
    <2> QED BY <1>1, <1>3, <2>1, <2>2, <2>3, <2>4, <2>5 DEF Engine!WellFormed
  <1> QED BY <1>3, <1>4, <1>7, <1>8

(* Where the engine comes to, walking on.                                  *)
LEMMA EngineWalks ==
  ASSUME Built(SavedFlow), NodesOf(SavedFlow, "placeholder") = {}, SelectsBranches,
         NEW n \in DOMAIN SavedFlow
  PROVE  Engine!Reaches[n] = Reach(Successors(SavedFlow), {n})
  <1> DEFINE D == DOMAIN SavedFlow
             next == Successors(SavedFlow)
  <1>1. Engine!Successors = next /\ DOMAIN next = D
    <2>1. \A m \in D : Engine!NextNodes(m) = next[m]
      BY EngineViews
    <2> QED BY <2>1, BuiltFacts DEF Engine!Successors, Successors
  <1> HIDE DEF next
  <1>2. Engine!Reaches[n] = {m \in D : \A S \in SUBSET D : n \in S /\ (\A x \in S : next[x] \subseteq S) => m \in S}
    BY <1>1 DEF Engine!Reaches, Engine!WalkFrom
  <1> QED BY <1>1, <1>2 DEF Reach, next

(* In a flow with layers, the branches of a node lead to where they meet   *)
(* and so to all that lies behind: none leads around a later join.         *)
LEMMA NoneAround ==
  ASSUME NEW next, Core(next), IsFiniteSet(DOMAIN next), NEW z \in Joins(next),
         NEW x \in DOMAIN next, x # z, z \in Reach(next, {x}), NEW m \in next[x]
  PROVE  z \in Reach(next, {m})
  <1> DEFINE D == DOMAIN next
             R(n) == Reach(next, {n})
  <1>1. PICK rank, J : Layers(next, Joins(next), rank, J)
    BY DEF Core, Layered
  <1>2. /\ \A n \in D : next[n] \subseteq D /\ (next[n] = {} <=> n = "end-node")
        /\ \A n \in D : J[n] \in Joins(next) /\ Joins(next) \subseteq D /\ rank[n] \in Nat
        /\ \A n \in D : n \notin Joins(next) => n # "end-node"
    <2>1. \A n \in D : next[n] \subseteq D /\ (next[n] = {} <=> n = "end-node")
      BY DEF Core
    <2> QED BY <1>1, <2>1 DEF Layers, Joins
  <1>3. /\ \A n \in D : n \in R(n) /\ R(n) \subseteq D
        /\ \A n \in D : \A y \in R(n) : next[y] \subseteq R(n)
        /\ \A n \in D : \A T \in SUBSET D : n \in T /\ (\A y \in T : next[y] \subseteq T) => R(n) \subseteq T
    BY <1>2 DEF Reach
  <1> HIDE DEF R
  <1>4. \A n \in D : \A y \in R(n) : R(y) \subseteq R(n)
    BY <1>3
  (* Every node leads to its join: the last that did not would lead to one that does. *)
  <1>5. ASSUME NEW n \in D PROVE J[n] \in R(n)
    <2> DEFINE B == {y \in D : J[y] \notin R(y)}
    <2>1. SUFFICES ASSUME B # {} PROVE FALSE
      OBVIOUS
    <2>2. PICK y \in B : \A p \in B : rank[p] <= rank[y]
      BY <1>2, <2>1, SomeIsLast
    <2>3. y \in D /\ y \notin Joins(next)
      BY <1>1, <1>3 DEF Layers
    <2>4. PICK l \in next[y] : TRUE
      BY <1>2, <2>3
    <2>5. l \in D /\ rank[y] < rank[l] /\ J[l] = J[y]
      BY <1>1, <1>2, <2>3, <2>4 DEF Layers
    <2>6. l \notin B
      BY <1>2, <2>2, <2>3, <2>5
    <2>7. J[y] \in R(y)
      BY <1>3, <1>4, <2>3, <2>4, <2>5, <2>6
    <2> QED BY <2>2, <2>7
  (* What is behind a node before its join is not a join. *)
  <1>6. ASSUME NEW n \in D, z \in R(n) PROVE z \in R(J[n])
    <2> DEFINE T == {y \in D \ Joins(next) : J[y] = J[n]} \cup R(J[n])
    <2>1. J[n] \in D /\ J[n] \in R(J[n]) /\ R(J[n]) \subseteq D
      BY <1>2, <1>3
    <2>2. n \in T /\ T \in SUBSET D
      BY <1>1, <2>1 DEF Layers
    <2>3. ASSUME NEW y \in T PROVE next[y] \subseteq T
      <3>1. CASE y \in R(J[n])
        BY <1>3, <2>1, <3>1
      <3>2. CASE y \notin R(J[n])
        <4> SUFFICES ASSUME NEW l \in next[y] PROVE l \in T
          OBVIOUS
        <4>1. y \in D \ Joins(next) /\ J[y] = J[n]
          BY <3>2
        <4>2. l \in D /\ J[l] = J[n]
          BY <1>1, <4>1 DEF Layers
        <4>3. CASE l \in Joins(next)
          <5>1. l = J[n]
            BY <1>1, <4>2, <4>3 DEF Layers
          <5> QED BY <2>1, <5>1
        <4> QED BY <4>2, <4>3
      <3> QED BY <3>1, <3>2
    <2> HIDE DEF T
    <2>4. z \in T
      BY <1>3, <1>6, <2>2, <2>3
    <2> QED BY <2>4 DEF T
  <1>7. PICK k \in next[x] : z \in R(k)
    <2>1. SUFFICES ASSUME \A k \in next[x] : z \notin R(k) PROVE FALSE
      OBVIOUS
    <2> DEFINE T == {x} \cup UNION {R(k) : k \in next[x]}
    <2>2. x \in T /\ T \in SUBSET D
      BY <1>2, <1>3
    <2>3. \A y \in T : next[y] \subseteq T
      BY <1>2, <1>3
    <2>4. z \notin T
      BY <2>1
    <2> HIDE DEF T
    <2>5. R(x) \subseteq T
      BY <1>3, <2>2, <2>3
    <2> QED BY <2>4, <2>5 DEF R
  <1>8. k \in D /\ m \in D /\ J[k] = J[m]
    BY <1>1, <1>2 DEF Layers
  <1>9. z \in R(J[m]) /\ J[m] \in R(m)
    BY <1>5, <1>6, <1>7, <1>8
  <1>10. z \in R(m)
    BY <1>4, <1>8, <1>9
  <1> QED BY <1>10 DEF R

(* What the editor saves, the engine can execute: the assumptions of       *)
(* FlowGraph hold of it, and no way leads around a join, as the theorem    *)
(* NoBranchIsForgotten about shouldWaitForOtherBranches asks.              *)
THEOREM SavedFlowsAreExecutable ==
  Spec => [](~ bypassed /\ validateNodes(nodes) /\ SelectsBranches =>
               Engine!WellFormed /\ Engine!Acyclic /\ Engine!NoWayAround)
  <1>1. ASSUME BuilderInv, ~ bypassed, validateNodes(nodes), SelectsBranches
        PROVE  Engine!WellFormed /\ Engine!Acyclic /\ Engine!NoWayAround
    <2> DEFINE g == SavedFlow
               D == DOMAIN g
               next == Successors(g)
    <2>1. Built(g) /\ NodesOf(g, "placeholder") = {}
      <3>1. Built(nodes)
        BY <1>1 DEF BuilderInv
      <3>2. Built(g)
        BY <1>1, <3>1, ParsedResembles, ResemblesBuilt DEF SavedFlow
      <3>3. \A n \in DOMAIN parseFlow(nodes) : n \in DOMAIN nodes /\ nodes[n].type # "placeholder"
                                             /\ parseFlow(nodes)[n].type = nodes[n].type
        BY <3>1 DEF parseFlow, NodesOf, Built, Typed, NodeSet
      <3> QED BY <3>2, <3>3 DEF SavedFlow, NodesOf
    <2>2. /\ Engine!WellFormed /\ Engine!Start = "form-node"
          /\ Engine!Approvals = NodesOf(g, "approval")
          /\ \A n \in D : Engine!NextNodes(n) = next[n]
      BY <1>1, <2>1, EngineViews
    <2>3. \A n \in D : Engine!Reaches[n] = Reach(next, {n})
      BY <1>1, <2>1, EngineWalks
    <2>4. /\ DOMAIN next = D /\ Core(next) /\ "form-node" \in D /\ IsFiniteSet(D) /\ Ends(g)
          /\ \A n \in D : next[n] \subseteq D
      <3>1. IsFiniteSet(D)
        BY <2>1, KeysAre, FS_Subset DEF Built, Typed
      <3> QED BY <2>1, <3>1, BuiltFacts DEF Built, Core
    <2>5. Reach(next, {"form-node"}) = D /\ \A n \in D : n \notin Reach(next, next[n])
      <3>1. validateFlowDefinition(g) /\ NodesOf(g, "form") = {"form-node"}
        BY <2>1, <2>4, BuiltIsValid DEF NodesOf, Ends
      <3> QED BY <3>1 DEF validateFlowDefinition, validateReachability, detectCircularReferences
    <2>6. Engine!Acyclic
      <3> HIDE DEF next
      <3>1. ASSUME NEW m \in D, NEW n \in next[m] PROVE m \notin Reach(next, {n})
        <4>1. Reach(next, {n}) \subseteq Reach(next, next[m])
          BY <2>4 DEF Reach
        <4> QED BY <2>5, <4>1
      <3>2. \A m \in D : \A n \in next[m] : n \in D /\ m \notin Engine!Reaches[n]
        BY <2>3, <2>4, <3>1
      <3>3. Engine!Reaches[Engine!Start] = D
        BY <2>2, <2>3, <2>4, <2>5
      <3> QED BY <2>2, <3>2, <3>3 DEF Engine!Acyclic
    <2>7. Engine!NoWayAround
      <3> HIDE DEF next
      <3> SUFFICES ASSUME NEW z \in Engine!Joins, NEW x \in Engine!Before(z), NEW m \in Engine!NextNodes(x)
                   PROVE  m = z \/ m \in Engine!Before(z)
        BY DEF Engine!NoWayAround
      <3>1. x \in D /\ x # z /\ z \in Reach(next, {x}) /\ m \in next[x] /\ m \in D
        BY <2>2, <2>3, <2>4 DEF Engine!Before, Engine!Upstream
      <3>2. z \in D /\ z \in Joins(next)
        <4>1. z \in D /\ Engine!Several(z)
          BY <2>2 DEF Engine!Joins, NodesOf
        <4>2. Engine!findPredecessors(z) = Preds(next, z)
          BY <2>2, <2>4 DEF Engine!findPredecessors, Preds
        <4>3. Cardinality(Preds(next, z)) > 1
          BY <4>1, <4>2 DEF Engine!Several, Engine!Cardinality, Cardinality
        <4>4. Several(Preds(next, z))
          <5>1. SUFFICES ASSUME ~ Several(Preds(next, z)) PROVE FALSE
            OBVIOUS
          <5>2. Preds(next, z) = {} \/ \E y : Preds(next, z) = {y}
            BY <5>1 DEF Several
          <5>3. Cardinality(Preds(next, z)) \in {0, 1}
            BY <5>2, FS_EmptySet, FS_Singleton
          <5> QED BY <4>3, <5>3
        <4> QED BY <2>4, <4>1, <4>4 DEF Joins
      <3>3. z \in Reach(next, {m})
        BY <2>4, <3>1, <3>2, NoneAround
      <3> QED BY <2>3, <3>1, <3>3 DEF Engine!Before, Engine!Upstream
    <2> QED BY <2>2, <2>6, <2>7
  <1>2. BuilderInv => (~ bypassed /\ validateNodes(nodes) /\ SelectsBranches =>
                         Engine!WellFormed /\ Engine!Acyclic /\ Engine!NoWayAround)
    BY <1>1
  <1> QED BY <1>2, FlowStaysBuilt, PTL

================================================================================
