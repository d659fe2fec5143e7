--------------------------- MODULE Models_proofs ---------------------------
(***************************************************************************)
(* Theorems about Models, for any number of objects, servers and model     *)
(* numbers.  ModelInv is stated of a server s, the number i of it, the     *)
(* last model number k and server id n, the numbers ob in the objects, the *)
(* references hd of the program and rl of the FPGrowths, so that it can be *)
(* followed through the middle of a method: an action is taken apart into  *)
(* the start of a server (Starts), objects that lose their model (Loses)   *)
(* or a reference (Unreferred), numbers given out (Numbered), and models   *)
(* put on the server (Trained, Generated).                                 *)
(***************************************************************************)
EXTENDS Models, TLAPS

IsServer(s, k) ==
  /\ s = [status |-> s.status, table |-> s.table,
          deleted |-> s.deleted, training |-> s.training]
  /\ s.status \in {"up", "gone"}
  /\ DOMAIN s.table \subseteq 1 .. k
  /\ \A m \in DOMAIN s.table : s.table[m] \in (LR \cup {"FPM", "FPR"}) \X Object
  /\ s.deleted \subseteq 1 .. k /\ s.training \subseteq 1 .. k
  /\ s.status = "gone" => DOMAIN s.table = {} /\ s.training = {}

HasRef(o, hd, rl) == o \in hd \/ \E g \in Grower : rl[g] = o

(* No two objects have one number; an estimator has one as long as it is   *)
(* held; rules belong to one FPGrowth.                                     *)
Numbers(k, n, ob, hd) ==
  /\ k \in Nat /\ n \in Nat /\ hd \subseteq Object
  /\ ob \in [Object -> [mid : 0 .. k, sid : 0 .. n]]
  /\ \A o, p \in Object : ob[o].mid = ob[p].mid /\ ob[o].mid # 0 => o = p
  /\ \A o \in Estimator : o \in hd => ob[o].mid # 0
References(ob, rl) ==
  /\ rl \in [Grower -> RuleObj \cup {NoRule}]
  /\ \A g, h \in Grower : rl[g] = rl[h] /\ rl[g] # NoRule => g = h
  /\ \A g \in Grower : rl[g] # NoRule => ob[rl[g]].sid # 0

(* What is under the number of an object is its own, of a type that models *)
(* of such an object have; a number marked as under training that an       *)
(* object has is in the table.                                             *)
TypesOf(o) == IF o \in Estimator THEN LR ELSE {FP(o)}
Own(s, ob) ==
  \A o \in Object : ob[o].mid \in DOMAIN s.table =>
    /\ s.table[ob[o].mid][2] = o
    /\ s.table[ob[o].mid][1] \in TypesOf(o)
Marks(s, ob) ==
  \A o \in Object : ob[o].mid \in s.training =>
    o \notin Estimator /\ ob[o].mid \in DOMAIN s.table

(* A model of FPGrowth or FPRules has never been released, and has an      *)
(* object.                                                                 *)
Kept(s, i, ob, hd, rl) ==
  \A m \in DOMAIN s.table : s.table[m][1] \notin LR =>
    /\ m \notin s.deleted
    /\ \E o \in Grower \cup RuleObj :
         HasRef(o, hd, rl) /\ ob[o].mid = m /\ ob[o].sid = i

ModelInv(s, i, k, n, ob, hd, rl) ==
  /\ IsServer(s, k) /\ i \in 0 .. n /\ (i = 0 => s.status = "gone")
  /\ Numbers(k, n, ob, hd) /\ References(ob, rl)
  /\ Own(s, ob) /\ Marks(s, ob) /\ Kept(s, i, ob, hd, rl)

(* ob, with the number m and the server id v in x.                         *)
Renumbered(ob, x, m, v) == [ob EXCEPT ![x] = [mid |-> m, sid |-> v]]

(* A model of a fitted estimator has the type the estimator holds it for.  *)
Typed ==
  \A o \in Estimator : o \in fitted /\ obj[o].mid \in DOMAIN server.table =>
    server.table[obj[o].mid][1] = mtype[o]

(* The inductive invariant.                                                *)
Good == ModelInv(server, inst, mids, sids, obj, held, rule)
IInv ==
  /\ Good /\ Typed
  /\ mtype \in [Estimator -> LR \cup {Untyped}]
  /\ sids <= MaxServers /\ mids <= MaxModels
  /\ fitted \subseteq Estimator \cap held
  /\ stuck = NotStuck \/ stuck \in Object \X (0 .. sids)

---------------------------------------------------------------------------
LEMMA Kinds ==
  ASSUME NEW o \in Object
  PROVE  /\ FP(o) \in {"FPM", "FPR"} /\ FP(o) \notin LR
         /\ TypesOf(o) \subseteq LR \cup {"FPM", "FPR"}
         /\ o \in Estimator => TypesOf(o) = LR
         /\ o \notin Estimator =>
              TypesOf(o) = {FP(o)} /\ o \in Grower \cup RuleObj
BY TypesApart DEF FP, TypesOf, Object

(* A released model: release_model takes away no other and never meets the *)
(* loop that waits, unless the number is marked and has no model.          *)
LEMMA ReleaseEffect ==
  ASSUME NEW s, NEW k \in Nat, IsServer(s, k), NEW m \in 1 .. k,
         m \in s.training => m \in DOMAIN s.table,
         NEW t, t = release_model(s, m)
  PROVE  /\ IsServer(t, k)
         /\ t.status = s.status /\ t.training = s.training
         /\ t.deleted \subseteq s.deleted \cup {m}
         /\ DOMAIN t.table \subseteq DOMAIN s.table
         /\ DOMAIN s.table \ {m} \subseteq DOMAIN t.table
         /\ \A j \in DOMAIN t.table : t.table[j] = s.table[j]
         /\ m \in DOMAIN t.table => m \in s.deleted /\ t.deleted = s.deleted
<1>1. CASE s.status # "up" \/ m \in s.deleted
  <2>1. t = s
    BY <1>1 DEF release_model
  <2>. QED
    BY <1>1, <2>1 DEF IsServer
<1>2. CASE s.status = "up" /\ m \notin s.deleted
  <2>1. get_model_ptr(s, m) = s
    BY DEF get_model_ptr
  <2>2. t = [s EXCEPT !.deleted = @ \cup {m}, !.table = Restrict(@, DOMAIN @ \ {m})]
    BY <1>2, <2>1 DEF release_model
  <2>3. t = [status |-> s.status, deleted |-> s.deleted \cup {m}, training |-> s.training,
             table |-> [j \in DOMAIN s.table \ {m} |-> s.table[j]]]
    BY <2>2 DEF IsServer, Restrict
  <2>4. /\ t.status = "up" /\ t.deleted = s.deleted \cup {m} /\ t.training = s.training
        /\ DOMAIN t.table = DOMAIN s.table \ {m}
        /\ \A j \in DOMAIN t.table : t.table[j] = s.table[j]
        /\ t = [status |-> t.status, table |-> t.table,
                deleted |-> t.deleted, training |-> t.training]
    BY <2>3, <1>2
  <2>. QED
    BY <2>4, <1>2 DEF IsServer
<1>. QED
  BY <1>1, <1>2 DEF IsServer

(* A trained model: only the entry under its number changes.               *)
LEMMA TrainEffect ==
  ASSUME NEW s, NEW k \in Nat, IsServer(s, k), s.status = "up",
         NEW m \in 1 .. k, NEW o \in Object, NEW T \in TypesOf(o),
         NEW t, t = handle_trained_model(s, m, T, o)
  PROVE  /\ IsServer(t, k)
         /\ t.status = "up" /\ t.training = s.training /\ t.deleted = s.deleted
         /\ DOMAIN t.table = DOMAIN s.table \cup {m}
         /\ \A j \in DOMAIN s.table \ {m} : t.table[j] = s.table[j]
         /\ t.table[m] = <<T, o>>
<1>1. t = [status |-> s.status, deleted |-> s.deleted, training |-> s.training,
           table |-> [j \in {m} \cup DOMAIN s.table |->
                        IF j = m THEN <<T, o>> ELSE s.table[j]]]
  BY DEF IsServer, handle_trained_model
<1>2. /\ t.status = "up" /\ t.training = s.training /\ t.deleted = s.deleted
      /\ DOMAIN t.table = DOMAIN s.table \cup {m}
      /\ \A j \in DOMAIN s.table \ {m} : t.table[j] = s.table[j]
      /\ t.table[m] = <<T, o>>
      /\ t = [status |-> t.status, table |-> t.table,
              deleted |-> t.deleted, training |-> t.training]
  BY <1>1
<1>3. <<T, o>> \in (LR \cup {"FPM", "FPR"}) \X Object
  BY Kinds
<1>. QED
  BY <1>2, <1>3 DEF IsServer

---------------------------------------------------------------------------
(* x loses its number, and its model on s if it has one there.             *)
LEMMA Loses ==
  ASSUME NEW s, NEW i, NEW k, NEW n, NEW ob, NEW hd, NEW rl,
         ModelInv(s, i, k, n, ob, hd, rl),
         NEW x \in Grower \cup RuleObj, NEW v \in 0 .. n,
         NEW hd2, hd2 \subseteq hd, \A o \in hd : o # x => o \in hd2,
         NEW rl2 \in [Grower -> RuleObj \cup {NoRule}],
         \A g \in Grower : rl2[g] = rl[g] \/ (rl[g] = x /\ rl2[g] = NoRule),
         v = 0 => \A g \in Grower : rl2[g] # x,
         NEW t,
         \/ t = s /\ ob[x].mid \notin DOMAIN s.table
         \/ t = release_model(s, ob[x].mid) /\ ob[x].mid # 0
  PROVE  ModelInv(t, i, k, n, Renumbered(ob, x, 0, v), hd2, rl2)
<1>. DEFINE ob2 == Renumbered(ob, x, 0, v)
<1>. DEFINE m == ob[x].mid
<1>1. /\ x \in Object /\ x \notin Estimator
      /\ TypesOf(x) = {FP(x)} /\ FP(x) \notin LR
      /\ k \in Nat /\ n \in Nat /\ m \in 0 .. k
      /\ ob \in [Object -> [mid : 0 .. k, sid : 0 .. n]]
      /\ NoRule \notin RuleObj
  BY KindsApart, Kinds DEF ModelInv, Numbers, Object
<1>2. /\ ob2 \in [Object -> [mid : 0 .. k, sid : 0 .. n]]
      /\ ob2[x] = [mid |-> 0, sid |-> v] /\ ob2[x].mid = 0 /\ ob2[x].sid = v
      /\ \A o \in Object : o # x => ob2[o] = ob[o]
  <2>1. [mid |-> 0, sid |-> v] \in [mid : 0 .. k, sid : 0 .. n]
    BY <1>1
  <2>. QED
    BY <1>1, <2>1 DEF Renumbered
<1>3. m \in DOMAIN s.table => m \notin s.deleted
  <2>1. m \in DOMAIN s.table => s.table[m][1] \notin LR
    BY <1>1 DEF ModelInv, Own
  <2>. QED
    BY <2>1, <1>1 DEF ModelInv, Kept
<1>4. /\ IsServer(t, k) /\ IsServer(s, k)
      /\ t.status = s.status /\ t.training = s.training
      /\ t.deleted \subseteq s.deleted \cup {m}
      /\ DOMAIN t.table \subseteq DOMAIN s.table
      /\ DOMAIN s.table \ {m} \subseteq DOMAIN t.table
      /\ \A j \in DOMAIN t.table : t.table[j] = s.table[j]
      /\ m \notin DOMAIN t.table
  <2>1. CASE t = s /\ m \notin DOMAIN s.table
    BY <2>1 DEF ModelInv
  <2>2. CASE t = release_model(s, m) /\ m # 0
    <3>1. m \in 1 .. k
      BY <1>1, <2>2
    <3>2. m \in s.training => m \in DOMAIN s.table
      BY <1>1 DEF ModelInv, Marks
    <3>3. IsServer(s, k)
      BY DEF ModelInv
    <3>. HIDE DEF m
    <3>. QED
      BY <1>1, <1>3, <2>2, <3>1, <3>2, <3>3, ReleaseEffect
  <2>. QED
    BY <2>1, <2>2
<1>5. Numbers(k, n, ob2, hd2)
  <2>1. hd2 \subseteq Object
    BY DEF ModelInv, Numbers
  <2>2. \A o, p \in Object : ob2[o].mid = ob2[p].mid /\ ob2[o].mid # 0 => o = p
    BY <1>2 DEF ModelInv, Numbers
  <2>3. \A o \in Estimator : o \in hd2 => ob2[o].mid # 0
    BY <1>1, <1>2 DEF ModelInv, Numbers, Object
  <2>. QED
    BY <1>1, <1>2, <2>1, <2>2, <2>3 DEF Numbers
<1>6. References(ob2, rl2)
  <2>1. \A g, h \in Grower : rl2[g] = rl2[h] /\ rl2[g] # NoRule => g = h
    BY DEF ModelInv, References
  <2>2. ASSUME NEW g \in Grower, rl2[g] # NoRule
        PROVE  ob2[rl2[g]].sid # 0
    <3>1. rl2[g] = rl[g] /\ rl2[g] \in Object /\ ob[rl[g]].sid # 0
      BY <2>2 DEF ModelInv, References, Object
    <3>. QED
      BY <2>2, <3>1, <1>2
  <2>. QED
    BY <2>1, <2>2 DEF References
<1>7. Own(t, ob2)
  <2>1. 0 \notin DOMAIN t.table
    BY <1>1, <1>4 DEF IsServer
  <2>. QED
    BY <1>2, <1>4, <2>1 DEF ModelInv, Own
<1>8. Marks(t, ob2)
  <2>1. ASSUME NEW o \in Object, ob2[o].mid \in t.training
        PROVE  o \notin Estimator /\ ob2[o].mid \in DOMAIN t.table
    <3>1. o # x
      BY <2>1, <1>1, <1>2, <1>4 DEF IsServer
    <3>2. ob[o].mid \in 1 .. k /\ ob[o].mid # m
      BY <2>1, <3>1, <1>1, <1>2, <1>4 DEF IsServer, ModelInv, Numbers
    <3>. QED
      BY <2>1, <3>1, <3>2, <1>2, <1>4 DEF ModelInv, Marks
  <2>. QED
    BY <2>1 DEF Marks
<1>9. Kept(t, i, ob2, hd2, rl2)
  <2>1. ASSUME NEW j \in DOMAIN t.table, t.table[j][1] \notin LR
        PROVE  /\ j \notin t.deleted
               /\ \E o \in Grower \cup RuleObj :
                    HasRef(o, hd2, rl2) /\ ob2[o].mid = j /\ ob2[o].sid = i
    <3>1. j \in DOMAIN s.table /\ s.table[j][1] \notin LR /\ j # m
      BY <2>1, <1>4
    <3>2. PICK o \in Grower \cup RuleObj :
            HasRef(o, hd, rl) /\ ob[o].mid = j /\ ob[o].sid = i
      BY <3>1 DEF ModelInv, Kept
    <3>3. o # x /\ o \in Object
      BY <3>1, <3>2 DEF Object
    <3>4. HasRef(o, hd2, rl2)
      BY <3>2, <3>3 DEF HasRef
    <3>5. j \notin t.deleted
      BY <3>1, <1>4 DEF ModelInv, Kept
    <3>. QED
      BY <3>2, <3>3, <3>4, <3>5, <1>2
  <2>. QED
    BY <2>1 DEF Kept
<1>. QED
  BY <1>4, <1>5, <1>6, <1>7, <1>8, <1>9 DEF ModelInv

(* x keeps its number, and is of server v from now on; of a model it has   *)
(* on s only an estimator's may go.                                        *)
LEMMA Moves ==
  ASSUME NEW s, NEW i, NEW k, NEW n, NEW ob, NEW hd, NEW rl,
         ModelInv(s, i, k, n, ob, hd, rl),
         NEW x \in Object, NEW v \in 0 .. n,
         x \in Estimator \/ ob[x].mid \notin DOMAIN s.table,
         v # 0 \/ v = ob[x].sid,
         NEW t,
         t = s \/ (t = release_model(s, ob[x].mid) /\ ob[x].mid # 0)
  PROVE  ModelInv(t, i, k, n, Renumbered(ob, x, ob[x].mid, v), hd, rl)
<1>. DEFINE ob2 == Renumbered(ob, x, ob[x].mid, v)
<1>. DEFINE m == ob[x].mid
<1>1. /\ k \in Nat /\ n \in Nat /\ m \in 0 .. k
      /\ ob \in [Object -> [mid : 0 .. k, sid : 0 .. n]]
  BY DEF ModelInv, Numbers
<1>2. /\ ob2 \in [Object -> [mid : 0 .. k, sid : 0 .. n]]
      /\ ob2[x].mid = m /\ ob2[x].sid = v
      /\ \A o \in Object : o # x => ob2[o] = ob[o]
      /\ \A o \in Object : ob2[o].mid = ob[o].mid
  <2>1. [mid |-> m, sid |-> v] \in [mid : 0 .. k, sid : 0 .. n]
    BY <1>1
  <2>. QED
    BY <1>1, <2>1 DEF Renumbered
<1>3. m \in DOMAIN s.table => s.table[m][1] \in LR
  <2>1. m \in DOMAIN s.table => s.table[m][1] \in TypesOf(x) /\ x \in Estimator
    BY DEF ModelInv, Own
  <2>. QED
    BY <2>1, Kinds
<1>4. /\ IsServer(t, k) /\ IsServer(s, k)
      /\ t.status = s.status /\ t.training = s.training
      /\ t.deleted \subseteq s.deleted \cup {m}
      /\ DOMAIN t.table \subseteq DOMAIN s.table
      /\ DOMAIN s.table \ {m} \subseteq DOMAIN t.table
      /\ \A j \in DOMAIN t.table : t.table[j] = s.table[j]
  <2>1. CASE t = s
    BY <2>1 DEF ModelInv
  <2>2. CASE t = release_model(s, m) /\ m # 0
    <3>1. m \in 1 .. k
      BY <1>1, <2>2
    <3>2. m \in s.training => m \in DOMAIN s.table
      BY <1>1 DEF ModelInv, Marks
    <3>3. IsServer(s, k)
      BY DEF ModelInv
    <3>. HIDE DEF m
    <3>. QED
      BY <1>1, <2>2, <3>1, <3>2, <3>3, ReleaseEffect
  <2>. QED
    BY <2>1, <2>2
<1>5. Numbers(k, n, ob2, hd)
  <2>1. hd \subseteq Object
    BY DEF ModelInv, Numbers
  <2>2. \A o, p \in Object : ob2[o].mid = ob2[p].mid /\ ob2[o].mid # 0 => o = p
    BY <1>2 DEF ModelInv, Numbers
  <2>3. \A o \in Estimator : o \in hd => ob2[o].mid # 0
    BY <1>1, <1>2 DEF ModelInv, Numbers, Object
  <2>. QED
    BY <1>1, <1>2, <2>1, <2>2, <2>3 DEF Numbers
<1>6. References(ob2, rl)
  <2>1. ASSUME NEW g \in Grower, rl[g] # NoRule
        PROVE  ob2[rl[g]].sid # 0
    <3>1. rl[g] \in Object /\ ob[rl[g]].sid # 0
      BY <2>1 DEF ModelInv, References, Object
    <3>. QED
      BY <3>1, <1>2
  <2>. QED
    BY <2>1 DEF ModelInv, References
<1>7. Own(t, ob2)
  BY <1>2, <1>4 DEF ModelInv, Own
<1>8. Marks(t, ob2)
  <2>1. ASSUME NEW o \in Object, ob2[o].mid \in t.training
        PROVE  o \notin Estimator /\ ob2[o].mid \in DOMAIN t.table
    <3>1. /\ ob[o].mid \in s.training /\ ob[o].mid # 0
          /\ o \notin Estimator /\ ob[o].mid \in DOMAIN s.table
      BY <2>1, <1>1, <1>2, <1>4 DEF IsServer, ModelInv, Marks
    <3>2. o # x
      BY <3>1
    <3>3. ob[o].mid # m
      BY <3>1, <3>2 DEF ModelInv, Numbers
    <3>. QED
      BY <3>1, <3>3, <1>2, <1>4
  <2>. QED
    BY <2>1 DEF Marks
<1>9. Kept(t, i, ob2, hd, rl)
  <2>1. ASSUME NEW j \in DOMAIN t.table, t.table[j][1] \notin LR
        PROVE  /\ j \notin t.deleted
               /\ \E o \in Grower \cup RuleObj :
                    HasRef(o, hd, rl) /\ ob2[o].mid = j /\ ob2[o].sid = i
    <3>1. j \in DOMAIN s.table /\ s.table[j][1] \notin LR /\ j # m
      BY <2>1, <1>3, <1>4
    <3>2. PICK o \in Grower \cup RuleObj :
            HasRef(o, hd, rl) /\ ob[o].mid = j /\ ob[o].sid = i
      BY <3>1 DEF ModelInv, Kept
    <3>3. o # x /\ o \in Object
      BY <3>1, <3>2 DEF Object
    <3>4. j \notin t.deleted
      BY <3>1, <1>4 DEF ModelInv, Kept
    <3>. QED
      BY <3>2, <3>3, <3>4, <1>2
  <2>. QED
    BY <2>1 DEF Kept
<1>. QED
  BY <1>4, <1>5, <1>6, <1>7, <1>8, <1>9 DEF ModelInv

(* An object without a model on s takes a fresh number.                    *)
LEMMA Numbered ==
  ASSUME NEW s, NEW i, NEW k, NEW n, NEW ob, NEW hd, NEW rl,
         ModelInv(s, i, k, n, ob, hd, rl),
         NEW x \in Object, NEW v \in 0 .. n,
         ob[x].mid \notin DOMAIN s.table,
         v = 0 => \A g \in Grower : rl[g] # x,
         NEW hd2 \in {hd, hd \cup {x}}
  PROVE  ModelInv(s, i, k + 1, n, Renumbered(ob, x, k + 1, v), hd2, rl)
<1>. DEFINE ob2 == Renumbered(ob, x, k + 1, v)
<1>1. /\ k \in Nat /\ k + 1 \in Nat /\ n \in Nat /\ IsServer(s, k)
      /\ ob \in [Object -> [mid : 0 .. k, sid : 0 .. n]]
  BY DEF ModelInv, Numbers
<1>2. /\ ob2 \in [Object -> [mid : 0 .. k + 1, sid : 0 .. n]]
      /\ ob2[x].mid = k + 1 /\ ob2[x].sid = v
      /\ \A o \in Object : o # x => ob2[o] = ob[o] /\ ob2[o].mid \in 0 .. k
  <2>1. [mid |-> k + 1, sid |-> v] \in [mid : 0 .. k + 1, sid : 0 .. n]
    BY <1>1
  <2>2. \A o \in Object : ob[o] \in [mid : 0 .. k + 1, sid : 0 .. n] /\ ob[o].mid \in 0 .. k
    BY <1>1
  <2>. QED
    BY <1>1, <2>1, <2>2 DEF Renumbered
<1>3. IsServer(s, k + 1)
  BY <1>1 DEF IsServer
<1>4. Numbers(k + 1, n, ob2, hd2)
  <2>1. hd2 \subseteq Object
    BY DEF ModelInv, Numbers
  <2>2. \A o, p \in Object : ob2[o].mid = ob2[p].mid /\ ob2[o].mid # 0 => o = p
    BY <1>1, <1>2 DEF ModelInv, Numbers
  <2>3. \A o \in Estimator : o \in hd2 => ob2[o].mid # 0
    BY <1>1, <1>2 DEF ModelInv, Numbers, Object
  <2>. QED
    BY <1>1, <1>2, <2>1, <2>2, <2>3 DEF Numbers
<1>5. References(ob2, rl)
  <2>1. ASSUME NEW g \in Grower, rl[g] # NoRule
        PROVE  ob2[rl[g]].sid # 0
    <3>1. rl[g] \in Object /\ ob[rl[g]].sid # 0
      BY <2>1 DEF ModelInv, References, Object
    <3>. QED
      BY <3>1, <1>2
  <2>. QED
    BY <2>1 DEF ModelInv, References
<1>6. k + 1 \notin DOMAIN s.table /\ k + 1 \notin s.training
  BY <1>1 DEF IsServer
<1>7. Own(s, ob2) /\ Marks(s, ob2)
  BY <1>2, <1>6 DEF ModelInv, Own, Marks
<1>8. Kept(s, i, ob2, hd2, rl)
  <2>1. ASSUME NEW j \in DOMAIN s.table, s.table[j][1] \notin LR
        PROVE  /\ j \notin s.deleted
               /\ \E o \in Grower \cup RuleObj :
                    HasRef(o, hd2, rl) /\ ob2[o].mid = j /\ ob2[o].sid = i
    <3>1. PICK o \in Grower \cup RuleObj :
            HasRef(o, hd, rl) /\ ob[o].mid = j /\ ob[o].sid = i
      BY <2>1 DEF ModelInv, Kept
    <3>2. o # x /\ o \in Object
      BY <3>1 DEF Object
    <3>3. HasRef(o, hd2, rl)
      BY <3>1 DEF HasRef
    <3>4. j \notin s.deleted
      BY <2>1 DEF ModelInv, Kept
    <3>. QED
      BY <3>1, <3>2, <3>3, <3>4, <1>2
  <2>. QED
    BY <2>1 DEF Kept
<1>. QED
  BY <1>1, <1>3, <1>4, <1>5, <1>7, <1>8 DEF ModelInv

(* The server trains a model under the number of x.                        *)
LEMMA Trained ==
  ASSUME NEW s, NEW i, NEW k, NEW n, NEW ob, NEW hd, NEW rl,
         ModelInv(s, i, k, n, ob, hd, rl), s.status = "up",
         NEW x \in Object, ob[x].mid # 0,
         x \notin Estimator =>
           HasRef(x, hd, rl) /\ ob[x].sid = i /\ ob[x].mid \notin s.deleted,
         NEW T \in TypesOf(x),
         NEW t, t = handle_trained_model(s, ob[x].mid, T, x)
  PROVE  ModelInv(t, i, k, n, ob, hd, rl)
<1>. DEFINE m == ob[x].mid
<1>1. k \in Nat /\ m \in 1 .. k /\ IsServer(s, k)
  <2>1. ob[x].mid \in 0 .. k /\ k \in Nat
    BY DEF ModelInv, Numbers
  <2>. QED
    BY <2>1 DEF ModelInv
<1>2. /\ IsServer(t, k)
      /\ t.status = "up" /\ t.training = s.training /\ t.deleted = s.deleted
      /\ DOMAIN t.table = DOMAIN s.table \cup {m}
      /\ \A j \in DOMAIN s.table \ {m} : t.table[j] = s.table[j]
      /\ t.table[m] = <<T, x>>
  <2>. HIDE DEF m
  <2>1. t = handle_trained_model(s, m, T, x)
    BY DEF m
  <2>. QED
    BY <1>1, <2>1, TrainEffect
<1>3. Own(t, ob)
  <2>1. ASSUME NEW o \in Object, ob[o].mid \in DOMAIN t.table
        PROVE  t.table[ob[o].mid][2] = o /\ t.table[ob[o].mid][1] \in TypesOf(o)
    <3>1. CASE ob[o].mid = m
      <4>1. o = x
        BY <3>1 DEF ModelInv, Numbers
      <4>. QED
        BY <4>1, <1>2
    <3>2. CASE ob[o].mid # m
      BY <3>2, <2>1, <1>2 DEF ModelInv, Own
    <3>. QED
      BY <3>1, <3>2
  <2>. QED
    BY <2>1 DEF Own
<1>4. Marks(t, ob)
  BY <1>2 DEF ModelInv, Marks
<1>5. Kept(t, i, ob, hd, rl)
  <2>1. ASSUME NEW j \in DOMAIN t.table, t.table[j][1] \notin LR
        PROVE  /\ j \notin t.deleted
               /\ \E o \in Grower \cup RuleObj :
                    HasRef(o, hd, rl) /\ ob[o].mid = j /\ ob[o].sid = i
    <3>1. CASE j = m
      <4>1. x \notin Estimator /\ x \in Grower \cup RuleObj
        BY <2>1, <3>1, <1>2, Kinds
      <4>. QED
        BY <3>1, <4>1, <1>2
    <3>2. CASE j # m
      BY <2>1, <3>2, <1>2 DEF ModelInv, Kept
    <3>. QED
      BY <3>1, <3>2
  <2>. QED
    BY <2>1 DEF Kept
<1>. QED
  BY <1>2, <1>3, <1>4, <1>5 DEF ModelInv

(* References that come and go without taking an object's last one.        *)
LEMMA Referred ==
  ASSUME NEW s, NEW i, NEW k, NEW n, NEW ob, NEW hd, NEW rl,
         ModelInv(s, i, k, n, ob, hd, rl),
         NEW hd2 \in SUBSET Object, NEW rl2, References(ob, rl2),
         \A o \in Estimator : o \in hd2 => ob[o].mid # 0,
         \A o \in Grower \cup RuleObj :
           HasRef(o, hd, rl) /\ ob[o].mid # 0 => HasRef(o, hd2, rl2)
  PROVE  ModelInv(s, i, k, n, ob, hd2, rl2)
<1>1. Numbers(k, n, ob, hd2)
  BY DEF ModelInv, Numbers
<1>2. Kept(s, i, ob, hd2, rl2)
  <2>1. \A j \in DOMAIN s.table : j # 0
    BY DEF ModelInv, IsServer
  <2>. QED
    BY <2>1 DEF ModelInv, Kept
<1>. QED
  BY <1>1, <1>2 DEF ModelInv

(* An FPGrowth has no rules left, or drops rules that the program holds or *)
(* that have lost their model.                                             *)
LEMMA Unreferred ==
  ASSUME NEW s, NEW i, NEW k, NEW n, NEW ob, NEW hd,
         ModelInv(s, i, k, n, ob, hd, rule),
         NEW x \in Object,
         RuleOf(x) = NoRule \/ RuleOf(x) \in hd \/ ob[RuleOf(x)].mid = 0
  PROVE  ModelInv(s, i, k, n, ob, hd, NoRules(x))
<1>1. References(ob, rule) /\ hd \in SUBSET Object
      /\ \A o \in Estimator : o \in hd => ob[o].mid # 0
  BY DEF ModelInv, Numbers
<1>2. \A g \in Grower : NoRules(x)[g] = IF g = x THEN NoRule ELSE rule[g]
  BY DEF NoRules
<1>3. References(ob, NoRules(x))
  <2>1. NoRules(x) \in [Grower -> RuleObj \cup {NoRule}]
    BY <1>1 DEF NoRules, References
  <2>. QED
    BY <2>1, <1>1, <1>2 DEF References
<1>4. ASSUME NEW o \in Grower \cup RuleObj, HasRef(o, hd, rule), ob[o].mid # 0
      PROVE  HasRef(o, hd, NoRules(x))
  <2>1. CASE o \in hd
    BY <2>1 DEF HasRef
  <2>2. CASE o \notin hd
    <3>1. PICK g \in Grower : rule[g] = o
      BY <1>4, <2>2 DEF HasRef
    <3>2. g # x
      <4>1. o # NoRule
        BY KindsApart
      <4>. QED
        BY <1>4, <2>2, <3>1, <4>1 DEF RuleOf
    <3>. QED
      BY <3>1, <3>2, <1>2 DEF HasRef
  <2>. QED
    BY <2>1, <2>2
<1>. QED
  BY <1>1, <1>3, <1>4, Referred

(* A server that has just started has no models.                           *)
LEMMA FreshServer ==
  /\ Fresh = [status |-> "up", table |-> << >>, deleted |-> {}, training |-> {}]
  /\ DOMAIN Fresh.table = {}
<1>1. PICK e : e = << >>
  OBVIOUS
<1>2. Lost = [status |-> "gone", table |-> e, deleted |-> {}, training |-> {}]
  BY <1>1 DEF Lost
<1>3. Fresh = [status |-> "up", table |-> e, deleted |-> {}, training |-> {}]
  BY <1>2 DEF Fresh
<1>4. DOMAIN e = {}
  BY <1>1
<1>. QED
  BY <1>1, <1>3, <1>4

(* A server is started when there is none.                                 *)
LEMMA Starts ==
  ASSUME ModelInv(server, inst, mids, sids, obj, held, rule), getID
  PROVE  /\ ModelInv(ServerNow, Current, mids, sids', obj, held, rule)
         /\ inst' = Current /\ Current \in 1 .. sids' /\ sids <= sids'
         /\ sids' \in Nat /\ (sids <= MaxServers => sids' <= MaxServers)
<1>1. sids \in Nat /\ mids \in Nat /\ inst \in 0 .. sids
  BY DEF ModelInv, Numbers
<1>2. CASE inst # 0
  <2>1. ServerNow = server /\ Current = inst /\ sids' = sids /\ inst' = inst
    BY <1>2 DEF getID, ServerNow, Current
  <2>. QED
    BY <1>1, <1>2, <2>1
<1>3. CASE inst = 0
  <2>1. /\ ServerNow = Fresh /\ Current = sids + 1
        /\ sids' = sids + 1 /\ inst' = sids + 1 /\ sids < MaxServers
    BY <1>3 DEF getID, ServerNow, Current
  <2>2. /\ Fresh = [status |-> "up", table |-> << >>, deleted |-> {}, training |-> {}]
        /\ DOMAIN Fresh.table = {}
    BY FreshServer
  <2>3. IsServer(Fresh, mids)
    BY <2>2 DEF IsServer
  <2>4. Numbers(mids, sids + 1, obj, held)
    <3>1. \A v \in [mid : 0 .. mids, sid : 0 .. sids] : v \in [mid : 0 .. mids, sid : 0 .. sids + 1]
      BY <1>1
    <3>2. obj \in [Object -> [mid : 0 .. mids, sid : 0 .. sids + 1]]
      BY <3>1 DEF ModelInv, Numbers
    <3>. QED
      BY <1>1, <3>2 DEF ModelInv, Numbers
  <2>5. Own(Fresh, obj) /\ Marks(Fresh, obj) /\ Kept(Fresh, sids + 1, obj, held, rule)
    BY <2>2 DEF Own, Marks, Kept
  <2>6. ModelInv(Fresh, sids + 1, mids, sids + 1, obj, held, rule)
    BY <1>1, <2>3, <2>4, <2>5 DEF ModelInv
  <2>. QED
    BY <1>1, <2>1, <2>6, BoundsAssumption
<1>. QED
  BY <1>2, <1>3

(* The server is gone, with all its models.                                *)
LEMMA Ends ==
  ASSUME NEW s, NEW i, NEW k, NEW n, NEW ob, NEW hd, NEW rl,
         ModelInv(s, i, k, n, ob, hd, rl), NEW j \in {0, i}, NEW t,
         t = Lost \/ (t = s /\ s.status = "gone")
  PROVE  ModelInv(t, j, k, n, ob, hd, rl)
<1>1. i \in 0 .. n /\ k \in Nat /\ n \in Nat /\ IsServer(s, k)
  BY DEF ModelInv, Numbers
<1>2. Lost = [status |-> "gone", table |-> << >>, deleted |-> {}, training |-> {}]
      /\ DOMAIN Lost.table = {}
  BY DEF Lost
<1>3. IsServer(Lost, k)
  BY <1>2 DEF IsServer
<1>4. IsServer(t, k) /\ DOMAIN t.table = {} /\ t.training = {} /\ t.status = "gone"
  BY <1>1, <1>2, <1>3 DEF IsServer
<1>5. Own(t, ob) /\ Marks(t, ob) /\ Kept(t, j, ob, hd, rl)
  BY <1>4 DEF Own, Marks, Kept
<1>. QED
  BY <1>1, <1>4, <1>5 DEF ModelInv

(* A number is given out and no object keeps it.                           *)
LEMMA Skipped ==
  ASSUME NEW s, NEW i, NEW k, NEW n, NEW ob, NEW hd, NEW rl,
         ModelInv(s, i, k, n, ob, hd, rl)
  PROVE  ModelInv(s, i, k + 1, n, ob, hd, rl)
<1>1. k \in Nat /\ n \in Nat /\ ob \in [Object -> [mid : 0 .. k, sid : 0 .. n]]
      /\ IsServer(s, k)
  BY DEF ModelInv, Numbers
<1>2. \A v \in [mid : 0 .. k, sid : 0 .. n] : v \in [mid : 0 .. k + 1, sid : 0 .. n]
  BY <1>1
<1>3. ob \in [Object -> [mid : 0 .. k + 1, sid : 0 .. n]]
  BY <1>1, <1>2
<1>4. Numbers(k + 1, n, ob, hd)
  BY <1>1, <1>3 DEF ModelInv, Numbers
<1>5. IsServer(s, k + 1)
  BY <1>1 DEF IsServer
<1>. QED
  BY <1>4, <1>5 DEF ModelInv

(* A number is marked as under training.                                   *)
LEMMA Marked ==
  ASSUME NEW s, NEW i, NEW k, NEW n, NEW ob, NEW hd, NEW rl,
         ModelInv(s, i, k, n, ob, hd, rl), s.status = "up",
         NEW m \in 1 .. k,
         \A o \in Object : ob[o].mid = m => o \notin Estimator /\ m \in DOMAIN s.table,
         NEW t, t = [s EXCEPT !.training = @ \cup {m}]
  PROVE  ModelInv(t, i, k, n, ob, hd, rl)
<1>1. t = [status |-> s.status, table |-> s.table,
           deleted |-> s.deleted, training |-> s.training \cup {m}]
  BY DEF ModelInv, IsServer
<1>2. /\ t.status = "up" /\ t.table = s.table /\ t.deleted = s.deleted
      /\ t.training = s.training \cup {m}
      /\ t = [status |-> t.status, table |-> t.table,
              deleted |-> t.deleted, training |-> t.training]
  BY <1>1
<1>3. IsServer(t, k)
  BY <1>2 DEF ModelInv, IsServer
<1>4. Own(t, ob) /\ Marks(t, ob) /\ Kept(t, i, ob, hd, rl)
  BY <1>2 DEF ModelInv, Own, Marks, Kept
<1>. QED
  BY <1>2, <1>3, <1>4 DEF ModelInv

(* An estimator goes; its model stays.                                     *)
LEMMA EstimatorGoes ==
  ASSUME NEW s, NEW i, NEW k, NEW n, NEW ob, NEW hd, NEW rl,
         ModelInv(s, i, k, n, ob, hd, rl), NEW x \in Estimator
  PROVE  ModelInv(s, i, k, n, Renumbered(ob, x, 0, 0), hd \ {x}, rl)
<1>. DEFINE ob2 == Renumbered(ob, x, 0, 0)
<1>1. /\ k \in Nat /\ n \in Nat /\ IsServer(s, k) /\ x \in Object
      /\ ob \in [Object -> [mid : 0 .. k, sid : 0 .. n]]
  BY DEF ModelInv, Numbers, Object
<1>2. /\ ob2 \in [Object -> [mid : 0 .. k, sid : 0 .. n]]
      /\ ob2[x].mid = 0 /\ \A o \in Object : o # x => ob2[o] = ob[o]
  <2>1. [mid |-> 0, sid |-> 0] \in [mid : 0 .. k, sid : 0 .. n]
    BY <1>1
  <2>. QED
    BY <1>1, <2>1 DEF Renumbered
<1>3. Numbers(k, n, ob2, hd \ {x})
  <2>1. \A o, p \in Object : ob2[o].mid = ob2[p].mid /\ ob2[o].mid # 0 => o = p
    BY <1>2 DEF ModelInv, Numbers
  <2>2. \A o \in Estimator : o \in hd \ {x} => ob2[o].mid # 0
    BY <1>1, <1>2 DEF ModelInv, Numbers, Object
  <2>. QED
    BY <1>1, <1>2, <2>1, <2>2 DEF ModelInv, Numbers
<1>4. References(ob2, rl)
  <2>1. ASSUME NEW g \in Grower, rl[g] # NoRule
        PROVE  ob2[rl[g]].sid # 0
    <3>1. rl[g] \in RuleObj /\ ob[rl[g]].sid # 0
      BY <2>1 DEF ModelInv, References
    <3>2. rl[g] \in Object /\ rl[g] # x
      BY <3>1, KindsApart DEF Object
    <3>. QED
      BY <3>1, <3>2, <1>2
  <2>. QED
    BY <2>1 DEF ModelInv, References
<1>5. 0 \notin DOMAIN s.table /\ 0 \notin s.training
  BY <1>1 DEF IsServer
<1>6. Own(s, ob2) /\ Marks(s, ob2)
  BY <1>2, <1>5 DEF ModelInv, Own, Marks
<1>7. Kept(s, i, ob2, hd \ {x}, rl)
  <2>1. \A o \in Grower \cup RuleObj : o # x /\ o \in Object
    BY KindsApart DEF Object
  <2>2. \A o \in Grower \cup RuleObj : HasRef(o, hd, rl) => HasRef(o, hd \ {x}, rl)
    BY <2>1 DEF HasRef
  <2>3. ASSUME NEW j \in DOMAIN s.table, s.table[j][1] \notin LR
        PROVE  /\ j \notin s.deleted
               /\ \E o \in Grower \cup RuleObj :
                    HasRef(o, hd \ {x}, rl) /\ ob2[o].mid = j /\ ob2[o].sid = i
    <3>1. /\ j \notin s.deleted
          /\ \E o \in Grower \cup RuleObj :
               HasRef(o, hd, rl) /\ ob[o].mid = j /\ ob[o].sid = i
      BY <2>3 DEF ModelInv, Kept
    <3>2. PICK o \in Grower \cup RuleObj :
            HasRef(o, hd, rl) /\ ob[o].mid = j /\ ob[o].sid = i
      BY <3>1
    <3>3. ob2[o] = ob[o] /\ HasRef(o, hd \ {x}, rl)
      BY <3>2, <2>1, <2>2, <1>2
    <3>. QED
      BY <3>1, <3>2, <3>3
  <2>. QED
    BY <2>3 DEF Kept
<1>. QED
  BY <1>1, <1>3, <1>4, <1>6, <1>7 DEF ModelInv

---------------------------------------------------------------------------
(* Where the model of an object is: on the server there is, if anywhere.   *)
LEMMA Where ==
  ASSUME NEW s, NEW i, NEW k, NEW n, NEW ob, NEW hd, NEW rl,
         ModelInv(s, i, k, n, ob, hd, rl),
         NEW x \in Grower \cup RuleObj, ob[x].mid \in DOMAIN s.table
  PROVE  /\ HasRef(x, hd, rl) /\ ob[x].sid = i /\ i # 0
         /\ ob[x].mid # 0 /\ ob[x].mid \notin s.deleted /\ s.status = "up"
<1>1. x \in Object /\ TypesOf(x) = {FP(x)} /\ FP(x) \notin LR
  BY KindsApart, Kinds DEF Object
<1>2. s.table[ob[x].mid][1] = FP(x) /\ ob[x].mid # 0
  BY <1>1 DEF ModelInv, Own, IsServer
<1>3. /\ ob[x].mid \notin s.deleted
      /\ \E o \in Grower \cup RuleObj :
           HasRef(o, hd, rl) /\ ob[o].mid = ob[x].mid /\ ob[o].sid = i
  BY <1>1, <1>2 DEF ModelInv, Kept
<1>4. PICK o \in Grower \cup RuleObj :
        HasRef(o, hd, rl) /\ ob[o].mid = ob[x].mid /\ ob[o].sid = i
  BY <1>3
<1>5. o = x
  BY <1>1, <1>2, <1>4 DEF ModelInv, Numbers, Object
<1>6. s.status = "up" /\ i # 0
  BY DEF ModelInv, IsServer
<1>. QED
  BY <1>2, <1>3, <1>4, <1>5, <1>6

(* Rules that nobody holds are released when they have a model.            *)
LEMMA Releasing ==
  ASSUME NEW s, NEW i, NEW k, NEW n, NEW ob, NEW hd, NEW rl,
         ModelInv(s, i, k, n, ob, hd, rl), i = Current \/ i = 0,
         NEW r \in RuleObj, r \notin held, ob[r] = obj[r]
  PROVE  \/ Dropped(s, r) = s /\ ob[r].mid \notin DOMAIN s.table
         \/ Dropped(s, r) = release_model(s, ob[r].mid) /\ ob[r].mid # 0
<1>1. r # NoRule
  BY KindsApart
<1>2. CASE ob[r].mid = 0 \/ ob[r].sid # Current
  <2>1. Dropped(s, r) = s
    BY <1>2 DEF Dropped
  <2>2. ob[r].mid \in DOMAIN s.table => ob[r].sid = i /\ i # 0 /\ ob[r].mid # 0
    BY Where
  <2>. QED
    BY <1>2, <2>1, <2>2
<1>3. CASE ob[r].mid # 0 /\ ob[r].sid = Current
  BY <1>1, <1>3 DEF Dropped
<1>. QED
  BY <1>2, <1>3

(* An object that lost its number drops its rules, which release theirs    *)
(* when nobody else holds them.                                            *)
LEMMA DropsRules ==
  ASSUME NEW s, NEW i, NEW k, NEW n, NEW v, NEW hd, NEW ob1,
         NEW x \in Grower \cup RuleObj,
         hd \subseteq held, \A o \in held : o # x => o \in hd,
         ob1[x] = [mid |-> 0, sid |-> v],
         \A o \in Object \ {x} : ob1[o] = obj[o],
         ModelInv(s, i, k, n, ob1, hd, rule),
         i = Current \/ i = 0
  PROVE  ModelInv(Dropped(s, RuleOf(x)), i, k, n, Renamed(x, v, 0), hd, NoRules(x))
<1>. DEFINE r == RuleOf(x)
<1>1. /\ x \in Object /\ r \in RuleObj \cup {NoRule}
      /\ rule \in [Grower -> RuleObj \cup {NoRule}]
      /\ NoRule \notin Object
      /\ r # NoRule => r \in RuleObj /\ r \in Object /\ x \in Grower /\ r = rule[x]
  BY KindsApart DEF Object, RuleOf, ModelInv, References
<1>2. /\ r # NoRule => r # x /\ ob1[r] = obj[r]
      /\ ob1 \in [Object -> [mid : 0 .. k, sid : 0 .. n]]
  BY <1>1, KindsApart DEF ModelInv, Numbers
<1>3. CASE r = NoRule \/ r \in held
  <2>1. Dropped(s, r) = s
    BY <1>3 DEF Dropped
  <2>2. Renamed(x, v, 0) = ob1
    <3>1. \A o \in Object : Renamed(x, v, 0)[o] = ob1[o]
      BY <1>1, <1>3 DEF Renamed
    <3>. QED
      BY <3>1, <1>2 DEF Renamed
  <2>3. r = NoRule \/ r \in hd
    BY <1>2, <1>3
  <2>. QED
    BY <1>1, <2>1, <2>2, <2>3, Unreferred
<1>4. CASE r # NoRule /\ r \notin held
  <2>1. r \in RuleObj /\ r \in Object /\ r # x
    BY <1>1, <1>2, <1>4
  <2>2. Renamed(x, v, 0) = Renumbered(ob1, r, 0, 0)
    <3>1. \A o \in Object :
            Renamed(x, v, 0)[o] = Renumbered(ob1, r, 0, 0)[o]
      BY <1>2, <1>4, <2>1 DEF Renamed, Renumbered, Blank
    <3>. QED
      BY <3>1, <1>2 DEF Renamed, Renumbered
  <2>3. /\ NoRules(x) \in [Grower -> RuleObj \cup {NoRule}]
        /\ \A g \in Grower : NoRules(x)[g] = rule[g] \/ (rule[g] = r /\ NoRules(x)[g] = NoRule)
    BY <1>1, <1>4 DEF NoRules
  <2>4. \A g \in Grower : NoRules(x)[g] # r
    <3>1. ASSUME NEW g \in Grower, NoRules(x)[g] = r  PROVE FALSE
      <4>1. g # x /\ rule[g] = r
        BY <3>1, <1>4 DEF NoRules
      <4>. QED
        BY <4>1, <1>1, <1>4 DEF ModelInv, References
    <3>. QED
      BY <3>1
  <2>5. \/ Dropped(s, r) = s /\ ob1[r].mid \notin DOMAIN s.table
        \/ Dropped(s, r) = release_model(s, ob1[r].mid) /\ ob1[r].mid # 0
    <3>1. r \in RuleObj /\ r \notin held /\ ob1[r] = obj[r]
      BY <1>2, <1>4, <2>1
    <3>. HIDE DEF r
    <3>. QED
      BY <3>1, Releasing
  <2>6. 0 \in 0 .. n
    BY DEF ModelInv, Numbers
  <2>. HIDE DEF r
  <2>7. r \in Grower \cup RuleObj
    BY <2>1
  <2>8. ModelInv(Dropped(s, r), i, k, n, Renumbered(ob1, r, 0, 0), hd, NoRules(x))
    BY <2>3, <2>4, <2>5, <2>6, <2>7, Loses
  <2>. QED
    BY <2>2, <2>8 DEF r
<1>. QED
  BY <1>3, <1>4

(* An object gives up its number, its model if it has one, and its rules.  *)
LEMMA GivesUp ==
  ASSUME NEW s, NEW i, NEW n, NEW v \in 0 .. n,
         ModelInv(s, i, mids, n, obj, held, rule), i = Current \/ i = 0,
         NEW x \in Grower \cup RuleObj, NEW hd,
         hd \subseteq held, \A o \in held : o # x => o \in hd,
         v = 0 => \A g \in Grower : rule[g] # x,
         NEW t,
         \/ t = s /\ obj[x].mid \notin DOMAIN s.table
         \/ t = release_model(s, obj[x].mid) /\ obj[x].mid # 0
  PROVE  ModelInv(Dropped(t, RuleOf(x)), i, mids, n, Renamed(x, v, 0), hd, NoRules(x))
<1>. DEFINE ob1 == Renumbered(obj, x, 0, v)
<1>1. ModelInv(t, i, mids, n, ob1, hd, rule)
  <2>1. rule \in [Grower -> RuleObj \cup {NoRule}]
    BY DEF ModelInv, References
  <2>. QED
    BY <2>1, Loses
<1>2. ob1[x] = [mid |-> 0, sid |-> v] /\ \A o \in Object \ {x} : ob1[o] = obj[o]
  BY DEF ModelInv, Numbers, Renumbered, Object
<1>. HIDE DEF ob1
<1>. QED
  BY <1>1, <1>2, DropsRules

---------------------------------------------------------------------------
(* One lemma per action.                                                   *)

LEMMA NewEstimatorStep ==
  ASSUME Good, NEW o \in Object, NewEstimator(o)
  PROVE  Good'
<1>1. /\ o \in Estimator /\ obj[o] = Blank
      /\ mids' = mids + 1 /\ held' = held \cup {o}
      /\ obj' = [obj EXCEPT ![o].mid = mids + 1]
      /\ UNCHANGED <<sids, inst, server, rule>>
  BY DEF NewEstimator, NewModelID
<1>2. obj' = Renumbered(obj, o, mids + 1, 0)
  <2>1. obj[o] = [mid |-> 0, sid |-> 0] /\ o \in DOMAIN obj
    BY <1>1 DEF Good, ModelInv, Numbers, Blank
  <2>2. [obj[o] EXCEPT !.mid = mids + 1] = [mid |-> mids + 1, sid |-> 0]
    BY <2>1
  <2>. QED
    BY <1>1, <2>2, Zenon DEF Renumbered
<1>3. 0 \in 0 .. sids /\ obj[o].mid \notin DOMAIN server.table
  BY <1>1 DEF Good, ModelInv, Numbers, IsServer, Blank
<1>4. \A g \in Grower : rule[g] # o
  BY <1>1, KindsApart DEF Good, ModelInv, References
<1>5. ModelInv(server, inst, mids + 1, sids, Renumbered(obj, o, mids + 1, 0), held \cup {o}, rule)
  BY <1>3, <1>4, Numbered DEF Good
<1>. QED
  BY <1>1, <1>2, <1>5 DEF Good

(* The program gets one more reference.                                    *)
LEMMA OneMore ==
  ASSUME NEW s, NEW i, NEW k, NEW n, NEW ob, NEW hd, NEW rl,
         ModelInv(s, i, k, n, ob, hd, rl), NEW x \in Grower \cup RuleObj
  PROVE  ModelInv(s, i, k, n, ob, hd \cup {x}, rl)
<1>1. /\ hd \cup {x} \in SUBSET Object /\ References(ob, rl)
      /\ \A o \in Estimator : o \in hd \cup {x} => ob[o].mid # 0
  BY KindsApart DEF ModelInv, Numbers, Object
<1>2. \A o \in Grower \cup RuleObj : HasRef(o, hd, rl) => HasRef(o, hd \cup {x}, rl)
  BY DEF HasRef
<1>. QED
  BY <1>1, <1>2, Referred

LEMMA NewGrowerStep ==
  ASSUME Good, NEW o \in Object, NewGrower(o)
  PROVE  Good'
<1>1. o \in Grower \cup RuleObj /\ held' = held \cup {o}
      /\ UNCHANGED <<sids, inst, mids, server, obj, rule>>
  BY DEF NewGrower
<1>2. ModelInv(server, inst, mids, sids, obj, held \cup {o}, rule)
  BY <1>1, OneMore DEF Good
<1>. QED
  BY <1>1, <1>2 DEF Good

LEMMA KeepStep ==
  ASSUME Good, NEW o \in Object, Keep(o)
  PROVE  Good'
<1>1. o \in Grower \cup RuleObj /\ held' = held \cup {o}
      /\ UNCHANGED <<sids, inst, mids, server, obj, rule>>
  BY KindsApart DEF Keep, Good, ModelInv, References, Object
<1>2. ModelInv(server, inst, mids, sids, obj, held \cup {o}, rule)
  BY <1>1, OneMore DEF Good
<1>. QED
  BY <1>1, <1>2 DEF Good

LEMMA NewRulesStep ==
  ASSUME Good, NEW o \in Object, NewRules(o)
  PROVE  Good' /\ (sids <= MaxServers => sids' <= MaxServers) /\ sids <= sids'
<1>1. /\ o \in RuleObj /\ ~HasRef(o, held, rule) /\ getID
      /\ server' = ServerNow /\ held' = held \cup {o}
      /\ obj' = Renumbered(obj, o, 0, Current)
      /\ UNCHANGED <<mids, rule>>
  BY DEF NewRules, Unused, Alive, HasRef, Renumbered
<1>2. /\ ModelInv(ServerNow, Current, mids, sids', obj, held, rule)
      /\ inst' = Current /\ Current \in 1 .. sids' /\ sids' \in Nat
      /\ sids <= MaxServers => sids' <= MaxServers
      /\ sids <= sids'
  BY <1>1, Starts DEF Good
<1>3. obj[o].mid \notin DOMAIN ServerNow.table
  BY <1>1, <1>2, Where
<1>4. /\ Current \in 0 .. sids' /\ Current # 0 /\ o \in Grower \cup RuleObj
      /\ rule \in [Grower -> RuleObj \cup {NoRule}]
  BY <1>1, <1>2 DEF ModelInv, References
<1>5. ModelInv(ServerNow, Current, mids, sids', Renumbered(obj, o, 0, Current), held, rule)
  BY <1>2, <1>3, <1>4, Loses
<1>6. ModelInv(ServerNow, Current, mids, sids', Renumbered(obj, o, 0, Current), held \cup {o}, rule)
  BY <1>4, <1>5, OneMore
<1>. QED
  BY <1>1, <1>2, <1>6 DEF Good

(* What fit and load of an estimator have in common.                       *)
Refits(o) ==
  /\ o \in Estimator /\ o \in held /\ getID
  /\ obj' = [obj EXCEPT ![o].sid = Current]
  /\ stuck' = NotStuck /\ UNCHANGED <<mids, held, rule>>
  /\ \/ /\ server' \in {ServerNow, Lost} /\ fitted' \subseteq fitted
        /\ \/ mtype' = mtype
           \/ o \notin fitted' /\ \E T \in LR : mtype' = [mtype EXCEPT ![o] = T]
     \/ \E T \in LR :
          /\ mtype' = [mtype EXCEPT ![o] = T] /\ fitted' = fitted \cup {o}
          /\ ServerNow.status = "up"
          /\ server' = handle_trained_model(ServerNow, obj[o].mid, T, o)

LEMMA Refitting ==
  ASSUME NEW o, FitEstimator(o) \/ LoadEstimator(o)
  PROVE  Refits(o)
<1>1. Lost.status # "up"
  BY DEF Lost
<1>2. ASSUME NEW T \in LR, NEW s \in {ServerNow, Lost}, Fitted(o, T, s)
      PROVE  /\ mtype' = [mtype EXCEPT ![o] = T]
             /\ \/ server' \in {ServerNow, Lost} /\ fitted' = fitted \ {o}
                \/ /\ ServerNow.status = "up" /\ fitted' = fitted \cup {o}
                   /\ server' = handle_trained_model(ServerNow, obj[o].mid, T, o)
  BY <1>1, <1>2 DEF Fitted
<1>3. /\ o \in Estimator /\ o \in held /\ getID
      /\ obj' = [obj EXCEPT ![o].sid = Current]
      /\ stuck' = NotStuck /\ UNCHANGED <<mids, held, rule>>
      /\ \/ fitted' \in {fitted, fitted \ {o}} /\ server' = ServerNow /\ mtype' = mtype
         \/ \E T \in LR : \E s \in {ServerNow, Lost} : Fitted(o, T, s)
  <2>1. CASE FitEstimator(o)
    BY <2>1, Zenon DEF FitEstimator
  <2>2. CASE LoadEstimator(o)
    BY <2>2, Zenon DEF LoadEstimator
  <2>. QED
    BY <2>1, <2>2
<1>4. CASE fitted' \in {fitted, fitted \ {o}} /\ server' = ServerNow /\ mtype' = mtype
  BY <1>3, <1>4 DEF Refits
<1>5. ASSUME NEW T \in LR, NEW s \in {ServerNow, Lost}, Fitted(o, T, s)
      PROVE  Refits(o)
  <2>1. CASE server' \in {ServerNow, Lost} /\ fitted' = fitted \ {o}
    BY <1>2, <1>3, <1>5, <2>1 DEF Refits
  <2>2. CASE /\ ServerNow.status = "up" /\ fitted' = fitted \cup {o}
             /\ server' = handle_trained_model(ServerNow, obj[o].mid, T, o)
    BY <1>2, <1>3, <1>5, <2>2, Zenon DEF Refits
  <2>. QED
    BY <1>2, <1>5, <2>1, <2>2
<1>. QED
  BY <1>3, <1>4, <1>5

LEMMA RefitsStep ==
  ASSUME Good, NEW o \in Object, Refits(o)
  PROVE  Good' /\ (sids <= MaxServers => sids' <= MaxServers) /\ sids <= sids'
<1>. DEFINE ob == Renumbered(obj, o, obj[o].mid, Current)
<1>1. /\ o \in Estimator /\ o \in held /\ getID
      /\ obj' = [obj EXCEPT ![o].sid = Current]
      /\ UNCHANGED <<mids, held, rule>>
      /\ \/ server' \in {ServerNow, Lost}
         \/ /\ ServerNow.status = "up"
            /\ \E T \in LR : server' = handle_trained_model(ServerNow, obj[o].mid, T, o)
  BY DEF Refits
<1>2. /\ ModelInv(ServerNow, Current, mids, sids', obj, held, rule)
      /\ inst' = Current /\ Current \in 1 .. sids' /\ sids' \in Nat
      /\ sids <= MaxServers => sids' <= MaxServers
      /\ sids <= sids'
  BY <1>1, Starts DEF Good
<1>3. obj' = ob /\ ob[o].mid = obj[o].mid /\ obj[o].mid # 0
  <2>1. obj[o] \in [mid : 0 .. mids, sid : 0 .. sids] /\ o \in DOMAIN obj /\ obj[o].mid # 0
    BY <1>1 DEF Good, ModelInv, Numbers
  <2>2. obj' = ob
    <3>1. [obj[o] EXCEPT !.sid = Current] = [mid |-> obj[o].mid, sid |-> Current]
      BY <2>1
    <3>. QED
      BY <1>1, <3>1, Zenon DEF Renumbered
  <2>. QED
    BY <2>1, <2>2 DEF Renumbered
<1>4. Current \in 0 .. sids' /\ Current # 0
  BY <1>2
<1>5. ModelInv(ServerNow, Current, mids, sids', ob, held, rule)
  BY <1>1, <1>2, <1>4, Moves
<1>. HIDE DEF ob
<1>6. ModelInv(server', Current, mids, sids', ob, held, rule)
  <2>1. CASE server' = ServerNow
    BY <1>5, <2>1
  <2>2. CASE server' = Lost
    BY <1>5, <2>2, Ends
  <2>3. ASSUME ServerNow.status = "up", NEW T \in LR,
               server' = handle_trained_model(ServerNow, obj[o].mid, T, o)
        PROVE  ModelInv(server', Current, mids, sids', ob, held, rule)
    <3>1. T \in TypesOf(o)
      BY <1>1, Kinds
    <3>. QED
      BY <1>1, <1>3, <1>5, <2>3, <3>1, Trained
  <2>. QED
    BY <1>1, <2>1, <2>2, <2>3
<1>. QED
  BY <1>1, <1>2, <1>3, <1>6 DEF Good

LEMMA AcquireStep ==
  ASSUME Good, NEW o \in Object, Acquire(o)
  PROVE  Good' /\ (sids <= MaxServers => sids' <= MaxServers) /\ sids <= sids'
<1>. DEFINE s == ServerNow
            had == obj[o].mid
            s1 == IF had = 0 THEN s ELSE release_model(s, had)
            s2 == Dropped(s1, RuleOf(o))
            n == sids'
            ob0 == Renamed(o, Current, 0)
            ob1 == Renamed(o, Current, mids + 1)
            rl == NoRules(o)
<1>1. /\ o \in Grower \cup RuleObj /\ o \in held /\ getID /\ held' = held
      /\ \/ /\ had # 0 /\ ~Releases(s, had) /\ server' = s1
            /\ obj' = [obj EXCEPT ![o].sid = Current]
            /\ mids' = mids /\ rule' = rule
         \/ /\ had # 0 => Releases(s, had)
            /\ rule' = rl
            /\ \/ server' = s2 /\ mids' = mids /\ obj' = ob0
               \/ /\ mids' = mids + 1 /\ obj' = ob1
                  /\ \/ server' = s2
                     \/ s2.status = "up" /\ server' = handle_trained_model(s2, mids + 1, FP(o), o)
  BY DEF Acquire, NewModelID
<1>2. /\ ModelInv(s, Current, mids, n, obj, held, rule)
      /\ inst' = Current /\ Current \in 1 .. n /\ n \in Nat
      /\ sids <= MaxServers => n <= MaxServers
      /\ sids <= n
  BY <1>1, Starts DEF Good
<1>3. Current \in 0 .. n /\ Current # 0 /\ IsServer(s, mids) /\ mids \in Nat
  BY <1>2 DEF ModelInv, Numbers
<1>4. ModelInv(server', Current, mids', n, obj', held, rule')
  <2>1. CASE /\ had # 0 /\ ~Releases(s, had) /\ server' = s1
             /\ obj' = [obj EXCEPT ![o].sid = Current]
             /\ mids' = mids /\ rule' = rule
    <3>1. obj' = Renumbered(obj, o, had, Current)
      <4>1. obj[o] \in [mid : 0 .. mids, sid : 0 .. n] /\ o \in DOMAIN obj
        BY <1>2 DEF ModelInv, Numbers
      <4>2. [obj[o] EXCEPT !.sid = Current] = [mid |-> obj[o].mid, sid |-> Current]
        BY <4>1
      <4>. QED
        BY <2>1, <4>2, Zenon DEF Renumbered
    <3>2. had \notin DOMAIN s.table
      BY <1>3, <2>1 DEF Releases, Finds, IsServer
    <3>3. s1 = release_model(s, had)
      BY <2>1
    <3>. HIDE DEF s, s1, n
    <3>4. ModelInv(s1, Current, mids, n, Renumbered(obj, o, obj[o].mid, Current), held, rule)
      BY <1>2, <1>3, <2>1, <3>2, <3>3, Moves
    <3>. QED
      BY <2>1, <3>1, <3>4
  <2>2. CASE had # 0 => Releases(s, had)
    <3>1. ModelInv(s2, Current, mids, n, ob0, held, rl)
      <4>1. \/ s1 = s /\ obj[o].mid \notin DOMAIN s.table
            \/ s1 = release_model(s, obj[o].mid) /\ obj[o].mid # 0
        BY <1>3 DEF IsServer
      <4>2. held \subseteq held /\ \A p \in held : p # o => p \in held
        OBVIOUS
      <4>. HIDE DEF s, s1, n
      <4>. QED
        BY <1>1, <1>2, <1>3, <4>1, <4>2, GivesUp
    <3>2. /\ ob0[o].mid = 0 /\ ob1 = Renumbered(ob0, o, mids + 1, Current)
          /\ ob1[o].mid = mids + 1 /\ ob1[o].sid = Current
      <4>1. ob1 = [ob0 EXCEPT ![o] = [mid |-> mids + 1, sid |-> Current]]
        BY DEF Renamed
      <4>2. ob0[o].mid = 0 /\ ob1[o].mid = mids + 1 /\ ob1[o].sid = Current
        BY DEF Renamed
      <4>. QED
        BY <4>1, <4>2 DEF Renumbered
    <3>. HIDE DEF s, s1, s2, n, ob0, ob1, rl
    <3>3. /\ IsServer(s2, mids) /\ ob0[o].mid \notin DOMAIN s2.table
          /\ mids + 1 \notin s2.deleted /\ mids + 1 # 0
      BY <1>3, <3>1, <3>2 DEF ModelInv, IsServer
    <3>4. ModelInv(s2, Current, mids + 1, n, ob1, held, rl)
      <4>1. held \in {held, held \cup {o}}
        OBVIOUS
      <4>2. ModelInv(s2, Current, mids + 1, n, Renumbered(ob0, o, mids + 1, Current), held, rl)
        BY <1>3, <3>1, <3>3, <4>1, Numbered
      <4>. QED
        BY <3>2, <4>2
    <3>5. HasRef(o, held, rl)
      BY <1>1 DEF HasRef
    <3>6. s2.status = "up" =>
            ModelInv(handle_trained_model(s2, mids + 1, FP(o), o), Current, mids + 1, n, ob1, held, rl)
      <4>1. o \in Object /\ o \notin Estimator
        BY <1>1, KindsApart DEF Object
      <4>2. FP(o) \in TypesOf(o)
        BY <4>1, Kinds
      <4>. QED
        BY <3>2, <3>3, <3>4, <3>5, <4>1, <4>2, Trained
    <3>. QED
      BY <1>1, <2>2, <3>1, <3>4, <3>6 DEF s
  <2>. QED
    BY <1>1, <2>1, <2>2
<1>. QED
  BY <1>1, <1>2, <1>4 DEF Good

LEMMA QueryStep ==
  ASSUME Good, NEW o \in Object, Query(o)
  PROVE  Good'
<1>1. server' = get_model_ptr(server, obj[o].mid)
      /\ UNCHANGED <<sids, inst, mids, obj, held, rule>>
  BY DEF Query
<1>2. obj[o].mid \notin server.training \ DOMAIN server.table
  BY DEF Good, ModelInv, Marks
<1>3. server' = server
  BY <1>1, <1>2 DEF get_model_ptr
<1>. QED
  BY <1>1, <1>3 DEF Good

LEMMA generate_rulesStep ==
  ASSUME Good, NEW g \in Grower, generate_rules(g)
  PROVE  Good'
<1>. DEFINE m == mids + 1
            marked == IF server.status = "up"
                      THEN [server EXCEPT !.training = @ \cup {m}] ELSE server
<1>1. /\ mids' = m /\ rule[g] = NoRule /\ g \in held /\ Associated(g)
      /\ UNCHANGED <<sids, inst, held>>
      /\ \/ server' = get_model_ptr(marked, obj[g].mid) /\ obj' = obj /\ rule' = rule
         \/ /\ Finds(server, obj[g].mid)
            /\ \E r \in Unused :
                 /\ server' = handle_trained_model(marked, m, FP(r), r)
                 /\ obj' = [obj EXCEPT ![r] = [mid |-> m, sid |-> inst]]
                 /\ rule' = [rule EXCEPT ![g] = r]
  BY DEF generate_rules, NewModelID
<1>2. /\ IsServer(server, mids) /\ mids \in Nat /\ m \in 1 .. m /\ m # 0
      /\ obj \in [Object -> [mid : 0 .. mids, sid : 0 .. sids]] /\ g \in Object
      /\ inst \in 0 .. sids /\ sids \in Nat
  BY DEF Good, ModelInv, Numbers, Object
<1>3. \A o \in Object : obj[o].mid # m
  BY <1>2
<1>4. CASE server' = get_model_ptr(marked, obj[g].mid) /\ obj' = obj /\ rule' = rule
  <2>1. ModelInv(server, inst, m, sids, obj, held, rule)
    BY Skipped DEF Good
  <2>2. ModelInv(marked, inst, m, sids, obj, held, rule)
    <3>1. CASE server.status # "up"
      BY <2>1, <3>1
    <3>2. CASE server.status = "up"
      <4>1. marked = [server EXCEPT !.training = @ \cup {m}]
        BY <3>2
      <4>. HIDE DEF m, marked
      <4>. QED
        BY <1>2, <1>3, <2>1, <3>2, <4>1, Marked
    <3>. QED
      BY <3>1, <3>2
  <2>3. obj[g].mid \notin marked.training \ DOMAIN marked.table
    BY <1>2, <2>2 DEF ModelInv, Marks
  <2>4. server' = marked
    BY <1>4, <2>3 DEF get_model_ptr
  <2>. QED
    BY <1>1, <1>4, <2>2, <2>4 DEF Good
<1>5. ASSUME Finds(server, obj[g].mid),
             NEW r \in Unused,
             server' = handle_trained_model(marked, m, FP(r), r),
             obj' = [obj EXCEPT ![r] = [mid |-> m, sid |-> inst]],
             rule' = [rule EXCEPT ![g] = r]
      PROVE  Good'
  <2>. DEFINE ob == Renumbered(obj, r, m, inst)
              t == handle_trained_model(server, m, FP(r), r)
  <2>1. /\ server.status = "up" /\ r \in Grower \cup RuleObj /\ r \in Object
        /\ r \in RuleObj /\ r \notin Estimator /\ r # NoRule
        /\ ~HasRef(r, held, rule) /\ \A h \in Grower : rule[h] # r
    BY <1>5, KindsApart DEF Finds, Unused, Alive, HasRef, Object
  <2>2. inst # 0
    BY <2>1 DEF Good, ModelInv
  <2>3. obj[r].mid \notin DOMAIN server.table
    BY <2>1, Where DEF Good
  <2>4. obj' = ob /\ ob[r].mid = m /\ ob[r].sid = inst
        /\ \A o \in Object : o # r => ob[o] = obj[o]
    BY <1>2, <1>5, <2>1 DEF Renumbered
  <2>5. ModelInv(server, inst, m, sids, ob, held, rule)
    <3>1. held \in {held, held \cup {r}}
      OBVIOUS
    <3>. QED
      BY <1>2, <2>1, <2>3, <3>1, Numbered DEF Good
  <2>6. ModelInv(server, inst, m, sids, ob, held, rule')
    <3>1. /\ rule \in [Grower -> RuleObj \cup {NoRule}] /\ References(ob, rule)
          /\ held \in SUBSET Object
          /\ \A o \in Estimator : o \in held => ob[o].mid # 0
      BY <2>5 DEF ModelInv, References, Numbers
    <3>2. rule' \in [Grower -> RuleObj \cup {NoRule}]
          /\ rule'[g] = r /\ \A h \in Grower : h # g => rule'[h] = rule[h]
      BY <1>5, <2>1, <3>1
    <3>. HIDE DEF ob
    <3>3. References(ob, rule')
      BY <2>1, <2>2, <2>4, <3>1, <3>2 DEF References
    <3>4. ASSUME NEW o \in Grower \cup RuleObj, HasRef(o, held, rule)
          PROVE  HasRef(o, held, rule')
      <4>1. o # NoRule
        BY KindsApart
      <4>. QED
        BY <1>1, <3>2, <3>4, <4>1 DEF HasRef
    <3>. QED
      BY <2>5, <3>1, <3>3, <3>4, Referred
  <2>7. ModelInv(t, inst, m, sids, ob, held, rule')
    <3>1. HasRef(r, held, rule')
      <4>1. rule'[g] = r
        BY <1>5 DEF Good, ModelInv, References
      <4>. QED
        BY <4>1 DEF HasRef
    <3>2. m \notin server.deleted
      BY <1>2 DEF IsServer
    <3>3. FP(r) \in TypesOf(r)
      BY <2>1, Kinds
    <3>. HIDE DEF ob, m
    <3>. QED
      BY <1>2, <2>1, <2>4, <2>6, <3>1, <3>2, <3>3, Trained
  <2>8. /\ t.status = "up" /\ DOMAIN t.table = DOMAIN server.table \cup {m}
        /\ server' = [t EXCEPT !.training = @ \cup {m}]
    <3>1. server = [status |-> server.status, table |-> server.table,
                    deleted |-> server.deleted, training |-> server.training]
      BY <1>2 DEF IsServer
    <3>2. t = [status |-> server.status, deleted |-> server.deleted,
               training |-> server.training,
               table |-> [j \in {m} \cup DOMAIN server.table |->
                            IF j = m THEN <<FP(r), r>> ELSE server.table[j]]]
      BY <3>1 DEF handle_trained_model
    <3>3. marked = [status |-> server.status, table |-> server.table,
                    deleted |-> server.deleted, training |-> server.training \cup {m}]
      BY <2>1, <3>1
    <3>4. server' = [status |-> server.status, deleted |-> server.deleted,
               training |-> server.training \cup {m},
               table |-> [j \in {m} \cup DOMAIN server.table |->
                            IF j = m THEN <<FP(r), r>> ELSE server.table[j]]]
      BY <1>5, <3>3 DEF handle_trained_model
    <3>. QED
      BY <2>1, <3>2, <3>4
  <2>9. \A o \in Object : ob[o].mid = m => o \notin Estimator /\ m \in DOMAIN t.table
    BY <1>3, <2>1, <2>4, <2>8
  <2>. HIDE DEF ob, m, t
  <2>10. ModelInv(server', inst, m, sids, ob, held, rule')
    BY <1>2, <2>7, <2>8, <2>9, Marked
  <2>. QED
    BY <1>1, <2>4, <2>10 DEF Good
<1>. QED
  BY <1>1, <1>4, <1>5

(* An object that is no FPGrowth has no rules to drop.                     *)
LEMMA Ruleless ==
  ASSUME Good, NEW o \in Object, o \notin Grower
  PROVE  NoRules(o) = rule /\ \A s : Dropped(s, RuleOf(o)) = s
<1>1. rule \in [Grower -> RuleObj \cup {NoRule}]
  BY DEF Good, ModelInv, References
<1>2. NoRules(o) = rule
  BY <1>1 DEF NoRules
<1>3. RuleOf(o) = NoRule
  BY DEF RuleOf
<1>. QED
  BY <1>2, <1>3 DEF Dropped

LEMMA releaseStep ==
  ASSUME Good, NEW o \in Object, release(o)
  PROVE  Good'
<1>. DEFINE m == obj[o].mid
            s1 == IF Associated(o) THEN release_model(server, m) ELSE server
<1>1. /\ o \in held /\ UNCHANGED <<sids, inst, mids, held>>
      /\ \/ /\ Associated(o) /\ ~Releases(server, m)
            /\ server' = s1 /\ obj' = obj /\ rule' = rule
         \/ /\ server' = Dropped(s1, RuleOf(o))
            /\ obj' = IF o \in Estimator THEN obj ELSE Renamed(o, obj[o].sid, 0)
            /\ rule' = NoRules(o)
  BY DEF release
<1>2. /\ obj \in [Object -> [mid : 0 .. mids, sid : 0 .. sids]]
      /\ obj[o].sid \in 0 .. sids /\ IsServer(server, mids)
      /\ o \in Estimator => m # 0
  BY <1>1 DEF Good, ModelInv, Numbers
<1>3. Associated(o) => m # 0
  BY <1>2 DEF Associated, is_fitted
<1>4. ASSUME o \in Estimator \/ m \notin DOMAIN server.table
      PROVE  ModelInv(s1, inst, mids, sids, obj, held, rule)
  <2>1. obj = Renumbered(obj, o, obj[o].mid, obj[o].sid)
    <3>1. \A x \in Object : obj[x] = Renumbered(obj, o, obj[o].mid, obj[o].sid)[x]
      BY <1>2 DEF Renumbered
    <3>. QED
      BY <1>2, <3>1 DEF Renumbered
  <2>2. s1 = server \/ (s1 = release_model(server, obj[o].mid) /\ obj[o].mid # 0)
    BY <1>3
  <2>. HIDE DEF s1
  <2>3. ModelInv(s1, inst, mids, sids,
                 Renumbered(obj, o, obj[o].mid, obj[o].sid), held, rule)
    BY <1>2, <1>4, <2>2, Moves DEF Good
  <2>. QED
    BY <2>1, <2>3
<1>5. CASE /\ Associated(o) /\ ~Releases(server, m)
           /\ server' = s1 /\ obj' = obj /\ rule' = rule
  <2>1. m \notin DOMAIN server.table
    BY <1>2, <1>5 DEF Releases, Finds, IsServer
  <2>. QED
    BY <1>1, <1>4, <1>5, <2>1 DEF Good
<1>6. CASE /\ server' = Dropped(s1, RuleOf(o))
           /\ obj' = IF o \in Estimator THEN obj ELSE Renamed(o, obj[o].sid, 0)
           /\ rule' = NoRules(o)
  <2>1. CASE o \in Estimator
    <3>1. server' = s1 /\ obj' = obj /\ rule' = rule
      BY <1>6, <2>1, Ruleless, KindsApart
    <3>. QED
      BY <1>1, <1>4, <2>1, <3>1 DEF Good
  <2>2. CASE o \notin Estimator
    <3>1. o \in Grower \cup RuleObj
      BY <2>2, Kinds
    <3>2. obj[o].sid = 0 => \A g \in Grower : rule[g] # o
      BY KindsApart DEF Good, ModelInv, References, Object
    <3>3. inst = Current \/ inst = 0
      BY DEF Current
    <3>4. \/ s1 = server /\ obj[o].mid \notin DOMAIN server.table
          \/ s1 = release_model(server, obj[o].mid) /\ obj[o].mid # 0
      <4>1. m \in DOMAIN server.table => obj[o].sid = inst /\ inst # 0 /\ m # 0
        BY <3>1, Where DEF Good
      <4>2. m \in DOMAIN server.table => Associated(o)
        BY <2>2, <4>1 DEF Associated, is_fitted, isUP
      <4>. QED
        BY <1>3, <4>2
    <3>5. held \subseteq held /\ \A p \in held : p # o => p \in held
      OBVIOUS
    <3>. HIDE DEF s1
    <3>6. ModelInv(Dropped(s1, RuleOf(o)), inst, mids, sids,
                   Renamed(o, obj[o].sid, 0), held, NoRules(o))
      BY <1>2, <3>1, <3>2, <3>3, <3>4, <3>5, GivesUp DEF Good
    <3>. QED
      BY <1>1, <1>6, <2>2, <3>6 DEF Good
  <2>. QED
    BY <2>1, <2>2
<1>. QED
  BY <1>1, <1>5, <1>6

LEMMA DeleteStep ==
  ASSUME Good, NEW o \in Object, Delete(o)
  PROVE  Good'
<1>. DEFINE m == obj[o].mid
            lives == \E g \in Grower : rule[g] = o
            s1 == IF ~lives /\ o \notin Estimator /\ Associated(o)
                  THEN release_model(server, m) ELSE server
<1>1. /\ o \in held /\ held' = held \ {o} /\ UNCHANGED <<sids, inst, mids>>
      /\ server' = Dropped(s1, RuleOf(o)) /\ rule' = NoRules(o)
      /\ obj' = IF lives THEN obj ELSE [Renamed(o, 0, 0) EXCEPT ![o] = Blank]
  BY DEF Delete
<1>2. 0 \in 0 .. sids
  BY DEF Good, ModelInv, Numbers
<1>3. CASE lives
  <2>1. o \notin Grower
    BY <1>3, KindsApart DEF Good, ModelInv, References
  <2>2. server' = server /\ rule' = rule /\ obj' = obj
    BY <1>1, <1>3, <2>1, Ruleless
  <2>3. /\ held \ {o} \in SUBSET Object /\ References(obj, rule)
        /\ \A x \in Estimator : x \in held \ {o} => obj[x].mid # 0
    BY DEF Good, ModelInv, Numbers
  <2>4. \A x \in Grower \cup RuleObj : HasRef(x, held, rule) => HasRef(x, held \ {o}, rule)
    BY <1>3 DEF HasRef
  <2>5. ModelInv(server, inst, mids, sids, obj, held \ {o}, rule)
    BY <2>3, <2>4, Referred DEF Good
  <2>. QED
    BY <1>1, <2>2, <2>5 DEF Good
<1>4. CASE ~lives /\ o \in Estimator
  <2>1. server' = server /\ rule' = rule
    BY <1>1, <1>4, Ruleless, KindsApart
  <2>2. obj' = Renumbered(obj, o, 0, 0)
    <3>1. RuleOf(o) \notin Object
      BY <1>4, KindsApart DEF RuleOf, Object
    <3>2. \A x \in Object : obj'[x] = Renumbered(obj, o, 0, 0)[x]
      BY <1>1, <1>4, <3>1 DEF Renamed, Renumbered, Blank, Good, ModelInv, Numbers
    <3>3. obj' = [x \in Object |-> obj'[x]]
      BY <1>1, <1>4 DEF Renamed
    <3>4. Renumbered(obj, o, 0, 0) = [x \in Object |-> Renumbered(obj, o, 0, 0)[x]]
      BY DEF Renumbered, Good, ModelInv, Numbers
    <3>. QED
      BY <3>2, <3>3, <3>4
  <2>3. ModelInv(server, inst, mids, sids, Renumbered(obj, o, 0, 0), held \ {o}, rule)
    BY <1>4, EstimatorGoes DEF Good
  <2>. QED
    BY <1>1, <2>1, <2>2, <2>3 DEF Good
<1>5. CASE ~lives /\ o \notin Estimator
  <2>1. o \in Grower \cup RuleObj
    BY <1>5, Kinds
  <2>2. obj' = Renamed(o, 0, 0)
    BY <1>1, <1>5 DEF Renamed, Blank
  <2>3. inst = Current \/ inst = 0
    BY DEF Current
  <2>4. Associated(o) => m # 0
    BY <1>5 DEF Associated, is_fitted
  <2>5. \/ s1 = server /\ obj[o].mid \notin DOMAIN server.table
        \/ s1 = release_model(server, obj[o].mid) /\ obj[o].mid # 0
    <3>1. m \in DOMAIN server.table => obj[o].sid = inst /\ inst # 0 /\ m # 0
      BY <2>1, Where DEF Good
    <3>2. m \in DOMAIN server.table => Associated(o)
      BY <1>5, <3>1 DEF Associated, is_fitted, isUP
    <3>. QED
      BY <1>5, <2>4, <3>2
  <2>6. \A g \in Grower : rule[g] # o
    BY <1>5
  <2>. DEFINE hd == held \ {o}
  <2>7. hd \subseteq held /\ \A p \in held : p # o => p \in hd
    OBVIOUS
  <2>. HIDE DEF s1, hd
  <2>8. ModelInv(Dropped(s1, RuleOf(o)), inst, mids, sids, Renamed(o, 0, 0), hd, NoRules(o))
    BY <1>2, <2>1, <2>3, <2>5, <2>6, <2>7, GivesUp DEF Good
  <2>. QED
    BY <1>1, <2>2, <2>8 DEF Good, hd
<1>. QED
  BY <1>3, <1>4, <1>5

LEMMA ServerStep ==
  ASSUME Good, shut_down \/ Dies \/ reset
  PROVE  Good'
<1>1. /\ UNCHANGED <<sids, mids, obj, held, rule>> /\ inst' \in {0, inst}
      /\ server' = Lost \/ (server' = server /\ server.status = "gone")
  BY DEF shut_down, Dies, reset
<1>2. ModelInv(server', inst', mids, sids, obj, held, rule)
  BY <1>1, Ends DEF Good
<1>. QED
  BY <1>1, <1>2 DEF Good

(* Every action preserves the main part of the invariant; server ids grow. *)
LEMMA GoodStep ==
  ASSUME Good, Next
  PROVE  Good' /\ (sids <= MaxServers => sids' <= MaxServers) /\ sids <= sids'
<1>. sids \in Nat
  BY DEF Good, ModelInv, Numbers
<1>1. ASSUME NEW o \in Object, NewEstimator(o)  PROVE Good' /\ sids' = sids
  BY <1>1, NewEstimatorStep DEF NewEstimator
<1>2. ASSUME NEW o \in Object, NewGrower(o)  PROVE Good' /\ sids' = sids
  BY <1>2, NewGrowerStep DEF NewGrower
<1>3. ASSUME NEW o \in Object, Query(o)  PROVE Good' /\ sids' = sids
  BY <1>3, QueryStep DEF Query
<1>4. ASSUME NEW o \in Object, release(o)  PROVE Good' /\ sids' = sids
  BY <1>4, releaseStep DEF release
<1>5. ASSUME NEW o \in Object, Delete(o)  PROVE Good' /\ sids' = sids
  BY <1>5, DeleteStep DEF Delete
<1>6. ASSUME NEW o \in Object, Keep(o)  PROVE Good' /\ sids' = sids
  BY <1>6, KeepStep DEF Keep
<1>7. ASSUME NEW g \in Grower, generate_rules(g)  PROVE Good' /\ sids' = sids
  BY <1>7, generate_rulesStep DEF generate_rules
<1>8. ASSUME shut_down \/ Dies \/ reset  PROVE Good' /\ sids' = sids
  BY <1>8, ServerStep DEF shut_down, Dies, reset
<1>. QED
  BY <1>1, <1>2, <1>3, <1>4, <1>5, <1>6, <1>7, <1>8,
     NewRulesStep, Refitting, RefitsStep, AcquireStep DEF Next

(* What the other variables may do in a step.                              *)
LEMMA RestStep ==
  ASSUME IInv, Next, Good', sids <= sids'
  PROVE  /\ mids' <= MaxModels
         /\ fitted' \subseteq Estimator \cap held'
         /\ stuck' = NotStuck \/ stuck' \in Object \X (0 .. sids')
<1>1. /\ mids \in Nat /\ mids <= MaxModels /\ sids \in Nat /\ sids' \in Nat
      /\ obj \in [Object -> [mid : 0 .. mids, sid : 0 .. sids]]
      /\ fitted \subseteq Estimator \cap held
  BY DEF IInv, Good, ModelInv, Numbers
<1>2. \A o \in Object : obj[o].sid \in 0 .. sids'
  BY <1>1
<1>3. NewModelID => mids' <= MaxModels
  BY <1>1, BoundsAssumption DEF NewModelID
<1>4. ASSUME NEW o \in Object, NewEstimator(o) \/ NewGrower(o) \/ NewRules(o)
      PROVE  mids' <= MaxModels /\ fitted' = fitted /\ held \subseteq held' /\ stuck' = NotStuck
  BY <1>1, <1>3, <1>4 DEF NewEstimator, NewGrower, NewRules
<1>5. ASSUME NEW o \in Object, FitEstimator(o) \/ LoadEstimator(o)
      PROVE  mids' = mids /\ fitted' \subseteq Estimator \cap held' /\ stuck' = NotStuck
  BY <1>1, <1>5, Refitting DEF Refits
<1>6. ASSUME NEW o \in Object, Acquire(o)
      PROVE  /\ mids' <= MaxModels /\ fitted' = fitted /\ held' = held
             /\ stuck' = NotStuck \/ stuck' = <<o, obj[o].sid>>
  BY <1>1, <1>3, <1>6 DEF Acquire
<1>7. ASSUME NEW o \in Object, Query(o) \/ Keep(o)
      PROVE  mids' = mids /\ fitted' = fitted /\ held \subseteq held' /\ stuck' = NotStuck
  BY <1>7 DEF Query, Keep
<1>8. ASSUME NEW o \in Object, release(o) \/ Delete(o)
      PROVE  mids' = mids /\ fitted' \subseteq Estimator \cap held' /\ stuck' = NotStuck
  BY <1>1, <1>8 DEF release, Delete
<1>9. ASSUME NEW g \in Grower, generate_rules(g)
      PROVE  mids' <= MaxModels /\ fitted' = fitted /\ held' = held /\ stuck' = NotStuck
  BY <1>3, <1>9 DEF generate_rules
<1>10. ASSUME shut_down \/ Dies \/ reset
       PROVE  mids' = mids /\ fitted' = fitted /\ held' = held /\ stuck' = NotStuck
  BY <1>10 DEF shut_down, Dies, reset
<1>11. \/ /\ mids' <= MaxModels /\ stuck' = NotStuck
          /\ \/ fitted' \subseteq Estimator \cap held'
             \/ fitted' = fitted /\ held \subseteq held'
       \/ \E o \in Object :
            /\ mids' <= MaxModels /\ fitted' = fitted /\ held' = held
            /\ stuck' = NotStuck \/ stuck' = <<o, obj[o].sid>>
  BY <1>1, <1>4, <1>5, <1>6, <1>7, <1>8, <1>9, <1>10 DEF Next
<1>. QED
  BY <1>1, <1>2, <1>11

LEMMA InitInv ==
  Init => IInv
<1>. SUFFICES ASSUME Init  PROVE IInv
  OBVIOUS
<1>. USE DEF Init
<1>1. /\ server = [status |-> "gone", table |-> << >>, deleted |-> {}, training |-> {}]
      /\ DOMAIN server.table = {} /\ server.status = "gone"
      /\ server.deleted = {} /\ server.training = {}
  BY DEF Lost
<1>2. IsServer(server, mids)
  BY <1>1 DEF IsServer
<1>3. obj = [o \in Object |-> [mid |-> 0, sid |-> 0]]
  BY DEF Blank
<1>4. [mid |-> 0, sid |-> 0] \in [mid : 0 .. mids, sid : 0 .. sids]
  OBVIOUS
<1>5. Numbers(mids, sids, obj, held)
  BY <1>3, <1>4 DEF Numbers
<1>6. References(obj, rule)
  BY DEF References
<1>7. Own(server, obj) /\ Marks(server, obj) /\ Kept(server, inst, obj, held, rule)
  BY <1>1 DEF Own, Marks, Kept
<1>8. Good
  BY <1>1, <1>2, <1>5, <1>6, <1>7 DEF Good, ModelInv
<1>9. Typed
  BY DEF Typed
<1>. QED
  BY <1>8, <1>9, BoundsAssumption DEF IInv

(* The models of estimators in t are models of s as well.                  *)
Older(t, s) ==
  /\ t = [status |-> t.status, table |-> t.table,
          deleted |-> t.deleted, training |-> t.training]
  /\ \A m \in DOMAIN t.table : t.table[m][1] \in LR =>
       m \in DOMAIN s.table /\ t.table[m] = s.table[m]

(* Methods of the server make no model of an estimator, but for a fit.     *)
LEMMA OlderFind ==
  ASSUME NEW s, NEW t, NEW m, Older(t, s)
  PROVE  Older(get_model_ptr(t, m), s)
<1>1. CASE t.status = "up" /\ m \in t.training \ DOMAIN t.table
  <2>1. PICK u : u = [t EXCEPT !.status = "spins"]
    OBVIOUS
  <2>2. u = [status |-> "spins", table |-> t.table,
             deleted |-> t.deleted, training |-> t.training]
    BY <2>1 DEF Older
  <2>3. Older(u, s)
    BY <2>2 DEF Older
  <2>. QED
    BY <1>1, <2>1, <2>3 DEF get_model_ptr
<1>2. CASE ~(t.status = "up" /\ m \in t.training \ DOMAIN t.table)
  BY <1>2 DEF get_model_ptr
<1>. QED
  BY <1>1, <1>2

LEMMA OlderRelease ==
  ASSUME NEW s, NEW t, NEW m, Older(t, s)
  PROVE  Older(release_model(t, m), s)
<1>1. PICK g : g = get_model_ptr(t, m)
  OBVIOUS
<1>2. Older(g, s)
  BY <1>1, OlderFind
<1>3. PICK u : u = [g EXCEPT !.deleted = @ \cup {m}, !.table = Restrict(@, DOMAIN @ \ {m})]
  OBVIOUS
<1>4. u = [status |-> g.status, training |-> g.training, deleted |-> g.deleted \cup {m},
           table |-> [x \in DOMAIN g.table \ {m} |-> g.table[x]]]
  BY <1>2, <1>3 DEF Restrict, Older
<1>5. Older(u, s)
  BY <1>2, <1>4 DEF Older
<1>. QED
  BY <1>1, <1>3, <1>5 DEF release_model

LEMMA OlderDropped ==
  ASSUME NEW s, NEW t, NEW r, Older(t, s)
  PROVE  Older(Dropped(t, r), s)
BY OlderRelease DEF Dropped

LEMMA OlderTrain ==
  ASSUME NEW s, NEW t, NEW m, NEW T, NEW o, T \notin LR, Older(t, s)
  PROVE  Older(handle_trained_model(t, m, T, o), s)
<1>1. PICK u : u = handle_trained_model(t, m, T, o)
  OBVIOUS
<1>2. u = [status |-> t.status, deleted |-> t.deleted, training |-> t.training,
           table |-> [x \in {m} \cup DOMAIN t.table |->
                        IF x = m THEN <<T, o>> ELSE t.table[x]]]
  BY <1>1 DEF Older, handle_trained_model
<1>3. /\ DOMAIN u.table = {m} \cup DOMAIN t.table
      /\ \A j \in DOMAIN u.table : u.table[j] = IF j = m THEN <<T, o>> ELSE t.table[j]
      /\ u = [status |-> u.status, table |-> u.table,
              deleted |-> u.deleted, training |-> u.training]
  BY <1>2
<1>4. Older(u, s)
  BY <1>3 DEF Older
<1>. QED
  BY <1>1, <1>4

LEMMA OlderStart ==
  ASSUME Good
  PROVE  Older(server, server) /\ Older(ServerNow, server) /\ Older(Lost, server)
<1>1. Older(server, server)
  BY DEF Good, ModelInv, IsServer, Older
<1>2. Older(Lost, server)
  BY DEF Lost, Older
<1>3. Fresh = [status |-> "up", table |-> << >>, deleted |-> {}, training |-> {}]
  BY FreshServer
<1>4. Older(Fresh, server)
  BY <1>3 DEF Older
<1>. QED
  BY <1>1, <1>2, <1>4 DEF ServerNow

(* A step that fits no estimator: it makes no model of one, and those that *)
(* stay fitted keep their number and their type.                           *)
Leaves ==
  /\ Older(server', server)
  /\ fitted' \subseteq fitted
  /\ \A e \in Estimator \cap fitted' :
       obj'[e].mid = obj[e].mid /\ mtype'[e] = mtype[e]

LEMMA LeavesTyped ==
  ASSUME Good', Typed, Leaves
  PROVE  Typed'
<1>1. ASSUME NEW o \in Estimator, o \in fitted', obj'[o].mid \in DOMAIN server'.table
      PROVE  server'.table[obj'[o].mid][1] = mtype'[o]
  <2>1. o \in fitted /\ obj'[o].mid = obj[o].mid /\ mtype'[o] = mtype[o]
    BY <1>1 DEF Leaves
  <2>2. server'.table[obj'[o].mid][1] \in LR
    BY <1>1 DEF Good, ModelInv, Own, TypesOf, Object
  <2>3. /\ obj'[o].mid \in DOMAIN server.table
        /\ server'.table[obj'[o].mid] = server.table[obj'[o].mid]
    BY <1>1, <2>2 DEF Leaves, Older
  <2>. QED
    BY <2>1, <2>3 DEF Typed
<1>. QED
  BY <1>1 DEF Typed

(* No method of an FPGrowth or of rules renumbers an estimator.            *)
LEMMA RenamedOthers ==
  ASSUME Good, NEW o \in Object, NEW v, NEW k, NEW e \in Estimator, e # o
  PROVE  e \in Object /\ Renamed(o, v, k)[e].mid = obj[e].mid
<1>1. e \in Object /\ e # RuleOf(o)
  BY KindsApart DEF Object, RuleOf, Good, ModelInv, References
<1>. QED
  BY <1>1 DEF Renamed

(* Every action but the fit and the load of an estimator is such a step.   *)
LEMMA OthersLeave ==
  ASSUME IInv, Next
  PROVE  Leaves \/ \E o \in Object : Refits(o)
<1>. USE DEF IInv
<1>1. Good /\ fitted \subseteq Estimator \cap held
  OBVIOUS
<1>2. /\ Older(server, server) /\ Older(ServerNow, server) /\ Older(Lost, server)
  BY <1>1, OlderStart
<1>3. /\ obj \in [Object -> [mid : 0 .. mids, sid : 0 .. sids]]
      /\ mtype \in [Estimator -> LR \cup {Untyped}]
      /\ Estimator \subseteq Object
  BY <1>1 DEF Good, ModelInv, Numbers, Object
<1>. HIDE DEF IInv
<1>4. ASSUME NEW o \in Object, NewEstimator(o)  PROVE Leaves
  <2>1. /\ server' = server /\ fitted' = fitted /\ o \notin fitted
        /\ obj' = [obj EXCEPT ![o].mid = mids + 1]
        /\ mtype' = [mtype EXCEPT ![o] = Untyped]
    BY <1>1, <1>4 DEF NewEstimator
  <2>. QED
    BY <1>2, <1>3, <2>1 DEF Leaves
<1>5. ASSUME NEW o \in Object, NewGrower(o) \/ Keep(o)  PROVE Leaves
  BY <1>2, <1>5 DEF NewGrower, Keep, Leaves
<1>6. ASSUME NEW o \in Object, NewRules(o)  PROVE Leaves
  <2>1. /\ server' = ServerNow /\ fitted' = fitted /\ mtype' = mtype
        /\ o \in RuleObj
        /\ obj' = [obj EXCEPT ![o] = [mid |-> 0, sid |-> Current]]
    BY <1>6 DEF NewRules, Unused
  <2>2. o \notin Estimator
    BY <2>1, KindsApart
  <2>. QED
    BY <1>2, <1>3, <2>1, <2>2 DEF Leaves
<1>7. ASSUME NEW o \in Object, Query(o)  PROVE Leaves
  <2>1. Older(get_model_ptr(server, obj[o].mid), server)
    BY <1>2, OlderFind
  <2>. QED
    BY <1>7, <2>1 DEF Query, Leaves
<1>8. ASSUME NEW o \in Object, Acquire(o)  PROVE Leaves
  <2>1. PICK s1 : s1 = IF obj[o].mid = 0 THEN ServerNow
                       ELSE release_model(ServerNow, obj[o].mid)
    OBVIOUS
  <2>2. PICK s2 : s2 = Dropped(s1, RuleOf(o))
    OBVIOUS
  <2>3. Older(s1, server)
    BY <1>2, <2>1, OlderRelease
  <2>4. Older(s2, server)
    BY <2>2, <2>3, OlderDropped
  <2>5. Older(handle_trained_model(s2, mids + 1, FP(o), o), server)
    BY <2>4, Kinds, OlderTrain
  <2>6. /\ fitted' = fitted /\ mtype' = mtype /\ o \in Grower \cup RuleObj
        /\ \/ server' = s1 \/ server' = s2
           \/ server' = handle_trained_model(s2, mids + 1, FP(o), o)
        /\ \/ obj' = [obj EXCEPT ![o].sid = Current]
           \/ \E k \in {0, mids + 1} : obj' = Renamed(o, Current, k)
    BY <1>8, <2>1, <2>2, Zenon DEF Acquire
  <2>7. o \notin Estimator
    BY <2>6, KindsApart
  <2>8. \A e \in Estimator : obj'[e].mid = obj[e].mid
    <3>1. CASE obj' = [obj EXCEPT ![o].sid = Current]
      BY <1>3, <2>7, <3>1
    <3>2. ASSUME NEW k, obj' = Renamed(o, Current, k)
          PROVE  \A e \in Estimator : obj'[e].mid = obj[e].mid
      BY <1>1, <2>7, <3>2, RenamedOthers
    <3>. QED
      BY <2>6, <3>1, <3>2
  <2>. QED
    BY <2>3, <2>4, <2>5, <2>6, <2>8 DEF Leaves
<1>9. ASSUME NEW g \in Grower, generate_rules(g)  PROVE Leaves
  <2>1. PICK marked : marked = IF server.status = "up"
                               THEN [server EXCEPT !.training = @ \cup {mids + 1}] ELSE server
    OBVIOUS
  <2>2. /\ fitted' = fitted /\ mtype' = mtype
        /\ \/ server' = get_model_ptr(marked, obj[g].mid) /\ obj' = obj
           \/ \E r \in Unused :
                /\ server' = handle_trained_model(marked, mids + 1, FP(r), r)
                /\ obj' = [obj EXCEPT ![r] = [mid |-> mids + 1, sid |-> inst]]
    BY <1>9, <2>1, Zenon DEF generate_rules
  <2>3. Older(marked, server)
    <3>1. CASE server.status = "up"
      <4>1. marked = [status |-> server.status, table |-> server.table,
                      deleted |-> server.deleted, training |-> server.training \cup {mids + 1}]
        BY <1>1, <2>1, <3>1 DEF Good, ModelInv, IsServer
      <4>. QED
        BY <4>1 DEF Older
    <3>. QED
      BY <1>2, <2>1, <3>1
  <2>4. CASE server' = get_model_ptr(marked, obj[g].mid) /\ obj' = obj
    BY <2>2, <2>3, <2>4, OlderFind DEF Leaves
  <2>5. ASSUME NEW r \in Unused,
               server' = handle_trained_model(marked, mids + 1, FP(r), r),
               obj' = [obj EXCEPT ![r] = [mid |-> mids + 1, sid |-> inst]]
        PROVE  Leaves
    <3>1. r \in Object /\ r \notin Estimator
      BY <2>5, KindsApart DEF Unused, Object
    <3>2. Older(server', server)
      BY <2>3, <2>5, <3>1, Kinds, OlderTrain
    <3>. QED
      BY <1>3, <2>2, <2>5, <3>1, <3>2 DEF Leaves
  <2>. QED
    BY <2>2, <2>4, <2>5
<1>10. ASSUME NEW o \in Object, release(o)  PROVE Leaves
  <2>1. PICK s1 : s1 = IF Associated(o) THEN release_model(server, obj[o].mid) ELSE server
    OBVIOUS
  <2>2. Older(s1, server) /\ Older(Dropped(s1, RuleOf(o)), server)
    BY <1>2, <2>1, OlderRelease, OlderDropped
  <2>3. /\ fitted' \subseteq fitted /\ mtype' = mtype
        /\ server' = s1 \/ server' = Dropped(s1, RuleOf(o))
        /\ obj' = obj \/ (o \notin Estimator /\ obj' = Renamed(o, obj[o].sid, 0))
    <3>1. \/ server' = s1 /\ obj' = obj /\ fitted' = fitted
          \/ /\ server' = Dropped(s1, RuleOf(o)) /\ fitted' = fitted \ {o}
             /\ obj' = IF o \in Estimator THEN obj ELSE Renamed(o, obj[o].sid, 0)
      BY <1>10, <2>1, Zenon DEF release
    <3>2. mtype' = mtype
      BY <1>10 DEF release
    <3>. QED
      BY <3>1, <3>2
  <2>4. \A e \in Estimator : obj'[e].mid = obj[e].mid
    BY <1>1, <2>3, RenamedOthers
  <2>. QED
    BY <2>2, <2>3, <2>4 DEF Leaves
<1>11. ASSUME NEW o \in Object, Delete(o)  PROVE Leaves
  <2>. DEFINE lives == \E g \in Grower : rule[g] = o
  <2>1. PICK s1 : s1 = IF ~lives /\ o \notin Estimator /\ Associated(o)
                       THEN release_model(server, obj[o].mid) ELSE server
    OBVIOUS
  <2>2. Older(Dropped(s1, RuleOf(o)), server)
    BY <1>2, <2>1, OlderRelease, OlderDropped
  <2>3. /\ server' = Dropped(s1, RuleOf(o)) /\ fitted' = fitted \ {o} /\ mtype' = mtype
        /\ obj' = IF lives THEN obj ELSE [Renamed(o, 0, 0) EXCEPT ![o] = Blank]
    BY <1>11, <2>1, Zenon DEF Delete
  <2>4. \A e \in Estimator : e # o => obj'[e].mid = obj[e].mid
    <3>1. CASE lives
      BY <2>3, <3>1
    <3>2. CASE ~lives
      <4>1. \A e \in Estimator : e # o =>
              obj'[e] = Renamed(o, 0, 0)[e] /\ e \in DOMAIN Renamed(o, 0, 0)
        BY <1>3, <2>3, <3>2 DEF Renamed
      <4>. QED
        BY <1>1, <4>1, RenamedOthers
    <3>. QED
      BY <3>1, <3>2
  <2>. QED
    BY <2>2, <2>3, <2>4 DEF Leaves
<1>12. ASSUME shut_down \/ Dies \/ reset  PROVE Leaves
  BY <1>2, <1>12 DEF shut_down, Dies, reset, Leaves
<1>13. ASSUME NEW o \in Object, FitEstimator(o) \/ LoadEstimator(o)
       PROVE  \E x \in Object : Refits(x)
  BY <1>13, Refitting
<1>. QED
  BY <1>4, <1>5, <1>6, <1>7, <1>8, <1>9, <1>10, <1>11, <1>12, <1>13 DEF Next

(* A fit or a load changes the model of its own estimator alone.           *)
LEMMA RefitsTyped ==
  ASSUME IInv, Good', NEW o \in Object, Refits(o)
  PROVE  Typed'
<1>1. /\ Good /\ Typed /\ mtype \in [Estimator -> LR \cup {Untyped}]
      /\ obj \in [Object -> [mid : 0 .. mids, sid : 0 .. sids]]
      /\ o \in Estimator
  BY DEF IInv, Good, ModelInv, Numbers, Refits
<1>2. Older(ServerNow, server) /\ Older(Lost, server)
  BY <1>1, OlderStart
<1>3. \A e \in Object : obj'[e].mid = obj[e].mid
  BY <1>1 DEF Refits
<1>4. CASE /\ server' \in {ServerNow, Lost} /\ fitted' \subseteq fitted
           /\ \/ mtype' = mtype
              \/ o \notin fitted' /\ \E T \in LR : mtype' = [mtype EXCEPT ![o] = T]
  <2>1. \A e \in Estimator \cap fitted' : mtype'[e] = mtype[e]
    BY <1>1, <1>4
  <2>2. Leaves
    BY <1>2, <1>3, <1>4, <2>1 DEF Leaves, Object
  <2>. QED
    BY <1>1, <2>2, LeavesTyped
<1>5. ASSUME NEW T \in LR,
             mtype' = [mtype EXCEPT ![o] = T], fitted' = fitted \cup {o},
             server' = handle_trained_model(ServerNow, obj[o].mid, T, o)
      PROVE  Typed'
  <2>1. server' = [status |-> ServerNow.status, deleted |-> ServerNow.deleted,
                   training |-> ServerNow.training,
                   table |-> [m \in {obj[o].mid} \cup DOMAIN ServerNow.table |->
                                IF m = obj[o].mid THEN <<T, o>> ELSE ServerNow.table[m]]]
    BY <1>2, <1>5 DEF Older, handle_trained_model
  <2>2. /\ DOMAIN server'.table = {obj[o].mid} \cup DOMAIN ServerNow.table
        /\ server'.table[obj[o].mid] = <<T, o>>
        /\ \A m \in DOMAIN ServerNow.table \ {obj[o].mid} :
             server'.table[m] = ServerNow.table[m]
    BY <2>1
  <2>3. ASSUME NEW e \in Estimator, e \in fitted', obj'[e].mid \in DOMAIN server'.table
        PROVE  server'.table[obj'[e].mid][1] = mtype'[e]
    <3>1. CASE e = o
      BY <1>1, <1>3, <1>5, <2>2, <3>1
    <3>2. CASE e # o
      <4>1. e \in Object /\ e \in fitted /\ mtype'[e] = mtype[e]
        BY <1>1, <1>5, <2>3, <3>2 DEF Object
      <4>2. server'.table[obj'[e].mid][2] = e /\ server'.table[obj'[e].mid][1] \in LR
        BY <2>3, <4>1 DEF Good, ModelInv, Own, TypesOf
      <4>3. obj'[e].mid = obj[e].mid /\ obj[e].mid # obj[o].mid
        BY <1>3, <2>2, <3>2, <4>1, <4>2
      <4>4. obj[e].mid \in DOMAIN ServerNow.table
            /\ server'.table[obj[e].mid] = ServerNow.table[obj[e].mid]
        BY <2>2, <2>3, <4>3
      <4>5. obj[e].mid \in DOMAIN server.table
            /\ ServerNow.table[obj[e].mid] = server.table[obj[e].mid]
        BY <1>2, <4>2, <4>3, <4>4 DEF Older
      <4>. QED
        BY <1>1, <4>1, <4>3, <4>4, <4>5 DEF Typed
    <3>. QED
      BY <3>1, <3>2
  <2>. QED
    BY <2>3 DEF Typed
<1>. QED
  BY <1>4, <1>5 DEF Refits

LEMMA mtypeStep ==
  ASSUME IInv, Next
  PROVE  mtype' \in [Estimator -> LR \cup {Untyped}]
<1>1. mtype \in [Estimator -> LR \cup {Untyped}]
  BY DEF IInv
<1>2. ASSUME NEW o \in Object, NewEstimator(o)
      PROVE  mtype' \in [Estimator -> LR \cup {Untyped}]
  BY <1>1, <1>2 DEF NewEstimator
<1>3. ASSUME NEW o \in Object, FitEstimator(o) \/ LoadEstimator(o)
      PROVE  mtype' \in [Estimator -> LR \cup {Untyped}]
  BY <1>1, <1>3, Refitting DEF Refits
<1>4. ASSUME NEW o \in Object,
             \/ NewGrower(o) \/ NewRules(o) \/ Acquire(o)
             \/ Query(o) \/ release(o) \/ Delete(o) \/ Keep(o)
      PROVE  mtype' = mtype
  BY <1>4 DEF NewGrower, NewRules, Acquire, Query, release, Delete, Keep
<1>5. ASSUME (\E g \in Grower : generate_rules(g)) \/ shut_down \/ Dies \/ reset
      PROVE  mtype' = mtype
  BY <1>5 DEF generate_rules, shut_down, Dies, reset
<1>. QED
  BY <1>1, <1>2, <1>3, <1>4, <1>5 DEF Next

LEMMA NextInv ==
  IInv /\ [Next]_vars => IInv'
<1>1. ASSUME IInv, Next  PROVE IInv'
  <2>1. Good' /\ sids' <= MaxServers /\ sids <= sids'
    BY <1>1, GoodStep DEF IInv
  <2>2. Typed'
    BY <1>1, <2>1, OthersLeave, LeavesTyped, RefitsTyped DEF IInv
  <2>. QED
    BY <1>1, <2>1, <2>2, RestStep, mtypeStep DEF IInv
<1>2. ASSUME IInv, UNCHANGED vars  PROVE IInv'
  <2>1. Good'
    BY <1>2 DEF vars, IInv, Good
  <2>2. Typed'
    BY <1>2 DEF vars, IInv, Typed
  <2>. QED
    BY <1>2, <2>1, <2>2 DEF vars, IInv, NotStuck, Untyped
<1>. QED
  BY <1>1, <1>2

LEMMA Invariance ==
  Spec => []IInv
BY InitInv, NextInv, PTL DEF Spec

---------------------------------------------------------------------------
(* The variables keep their types.                                         *)
THEOREM TypeCorrect ==
  Spec => []TypeOK
<1>1. ASSUME IInv  PROVE TypeOK
  <2>1. /\ sids \in Nat /\ mids \in Nat /\ inst \in 0 .. sids
        /\ sids <= MaxServers /\ mids <= MaxModels
    BY <1>1 DEF IInv, Good, ModelInv, Numbers
  <2>2. sids \in 0 .. MaxServers /\ mids \in 0 .. MaxModels
    BY <2>1, BoundsAssumption
  <2>. QED
    BY <1>1, <2>1, <2>2 DEF TypeOK, IInv, Good, ModelInv, IsServer, Numbers, References
<1>. QED
  BY <1>1, Invariance, PTL

(* What the server finds under the number of an object is the model of     *)
(* that object; if the object is fitted, the model is of the type that a   *)
(* request about it makes the server cast it to.                           *)
THEOREM OwnModel ==
  Spec => []RequestsReachOwnModel
<1>1. ASSUME IInv  PROVE RequestsReachOwnModel
  <2>1. ASSUME NEW o \in Object, obj[o].mid \in DOMAIN server.table
        PROVE  /\ server.table[obj[o].mid][2] = o
               /\ server.table[obj[o].mid][1] \in TypesOf(o)
               /\ is_fitted(o) => server.table[obj[o].mid][1] = TypeOf(o)
    <3>1. /\ server.table[obj[o].mid][2] = o
          /\ server.table[obj[o].mid][1] \in TypesOf(o)
      BY <1>1, <2>1 DEF IInv, Good, ModelInv, Own
    <3>2. is_fitted(o) => server.table[obj[o].mid][1] = TypeOf(o)
      <4>1. CASE o \in Estimator
        BY <1>1, <2>1, <4>1 DEF IInv, Typed, is_fitted, TypeOf
      <4>2. CASE o \notin Estimator
        BY <3>1, <4>2 DEF TypesOf, TypeOf
      <4>. QED
        BY <4>1, <4>2
    <3>. QED
      BY <3>1, <3>2
  <2>. QED
    BY <2>1 DEF RequestsReachOwnModel, TypesOf
<1>. QED
  BY <1>1, Invariance, PTL

(* No request reaches the loop of get_model_ptr that waits for the end of  *)
(* a training.                                                             *)
THEOREM NoSpin ==
  Spec => []NeverSpins
<1>1. IInv => NeverSpins
  BY DEF IInv, Good, ModelInv, IsServer, NeverSpins
<1>. QED
  BY <1>1, Invariance, PTL

(* Every model of FPGrowth and FPRules on the server belongs to an object  *)
(* that can still release it.                                              *)
THEOREM Owned ==
  Spec => []HeapOwned
<1>1. ASSUME IInv  PROVE HeapOwned
  <2>1. ASSUME NEW m \in DOMAIN server.table, server.table[m][1] \in {"FPM", "FPR"}
        PROVE  \E o \in Grower \cup RuleObj :
                 Alive(o) /\ obj[o] = [mid |-> m, sid |-> inst]
    <3>1. PICK o \in Grower \cup RuleObj :
            HasRef(o, held, rule) /\ obj[o].mid = m /\ obj[o].sid = inst
      BY <1>1, <2>1, TypesApart DEF IInv, Good, ModelInv, Kept
    <3>2. obj[o] \in [mid : 0 .. mids, sid : 0 .. sids]
      BY <1>1 DEF IInv, Good, ModelInv, Numbers, Object
    <3>3. obj[o] = [mid |-> m, sid |-> inst]
      BY <3>1, <3>2
    <3>. QED
      BY <3>1, <3>3 DEF HasRef, Alive
  <2>. QED
    BY <2>1 DEF HeapOwned
<1>. QED
  BY <1>1, Invariance, PTL

---------------------------------------------------------------------------
(* Which models a step may take away.                                      *)

(* The server s has a model under m.                                       *)
Has(s, m) ==
  /\ s = [status |-> s.status, table |-> s.table,
          deleted |-> s.deleted, training |-> s.training]
  /\ m \in DOMAIN s.table

LEMMA ReleaseKeeps ==
  ASSUME NEW s, NEW m, NEW j, Has(s, m), j # m
  PROVE  Has(release_model(s, j), m)
<1>1. PICK g : g = get_model_ptr(s, j)
  OBVIOUS
<1>2. /\ g = [status |-> g.status, table |-> g.table,
              deleted |-> g.deleted, training |-> g.training]
      /\ g.table = s.table
  BY <1>1 DEF Has, get_model_ptr
<1>3. PICK t : t = [g EXCEPT !.deleted = @ \cup {j}, !.table = Restrict(@, DOMAIN @ \ {j})]
  OBVIOUS
<1>4. t = [status |-> g.status, training |-> g.training, deleted |-> g.deleted \cup {j},
           table |-> [x \in DOMAIN s.table \ {j} |-> s.table[x]]]
  BY <1>2, <1>3 DEF Restrict
<1>5. Has(t, m)
  BY <1>4 DEF Has
<1>. QED
  BY <1>1, <1>3, <1>5 DEF release_model

LEMMA TrainKeeps ==
  ASSUME NEW s, NEW m, NEW j, NEW T, NEW o, Has(s, m)
  PROVE  Has(handle_trained_model(s, j, T, o), m)
<1>1. PICK t : t = handle_trained_model(s, j, T, o)
  OBVIOUS
<1>2. t = [status |-> s.status, deleted |-> s.deleted, training |-> s.training,
           table |-> [x \in {j} \cup DOMAIN s.table |->
                        IF x = j THEN <<T, o>> ELSE s.table[x]]]
  BY <1>1 DEF Has, handle_trained_model
<1>. QED
  BY <1>1, <1>2 DEF Has

(* Rules that are dropped lose their number.                               *)
LEMMA DroppedKeeps ==
  ASSUME NEW s, NEW m, NEW r, Has(s, m), r = NoRule \/ r \in held \/ obj[r].mid # m
  PROVE  Has(Dropped(s, r), m)
BY ReleaseKeeps DEF Dropped

(* o has a model on the server that there is.                              *)
Usable(o) == Alive(o) /\ Associated(o) /\ Finds(server, obj[o].mid)

LEMMA UsableFacts ==
  ASSUME IInv, NEW o \in Object, Usable(o)
  PROVE  /\ obj[o].mid # 0 /\ obj[o].mid \in 1 .. mids /\ mids \in Nat
         /\ inst # 0 /\ Current = inst /\ ServerNow = server /\ server.status = "up"
         /\ Has(server, obj[o].mid)
         /\ \A x \in Object \ {o} : obj[x].mid # obj[o].mid
         /\ \A x \in Object : obj[x] \in [mid : 0 .. mids, sid : 0 .. sids]
         /\ \A x \in Object : RuleOf(x) = NoRule \/ (x \in Grower /\ RuleOf(x) \in RuleObj)
<1>1. /\ obj[o].mid # 0 /\ obj[o].mid \in 1 .. mids /\ mids \in Nat
      /\ \A x \in Object \ {o} : obj[x].mid # obj[o].mid
      /\ \A x \in Object : obj[x] \in [mid : 0 .. mids, sid : 0 .. sids]
  BY DEF IInv, Good, ModelInv, IsServer, Numbers, Usable, Finds
<1>2. /\ inst # 0 /\ server.status = "up" /\ Has(server, obj[o].mid)
  BY DEF IInv, Good, ModelInv, IsServer, Usable, Associated, isUP, Finds, Has
<1>3. Current = inst /\ ServerNow = server
  BY <1>2 DEF Current, ServerNow
<1>4. \A x \in Object : RuleOf(x) = NoRule \/ (x \in Grower /\ RuleOf(x) \in RuleObj)
  BY DEF IInv, Good, ModelInv, References, RuleOf
<1>. QED
  BY <1>1, <1>2, <1>3, <1>4

(* A method of x that gives it another number, and drops its rules.        *)
LEMMA RenamedKeeps ==
  ASSUME IInv, NEW o \in Object, Usable(o), NEW s, Has(s, obj[o].mid),
         NEW x \in Object, NEW v, NEW k, Renamed(x, v, k)[o].mid = obj[o].mid
  PROVE  Has(Dropped(s, RuleOf(x)), obj[o].mid)
<1>1. CASE RuleOf(x) = NoRule \/ RuleOf(x) \in held
  BY <1>1, DroppedKeeps
<1>2. CASE RuleOf(x) # NoRule /\ RuleOf(x) \notin held
  <2>1. RuleOf(x) \in Object /\ RuleOf(x) # x
    BY <1>2, UsableFacts, KindsApart DEF Object
  <2>2. Renamed(x, v, k)[RuleOf(x)].mid = 0
    BY <1>2, <2>1 DEF Renamed, Blank
  <2>3. RuleOf(x) # o
    BY <2>2, UsableFacts
  <2>. QED
    BY <2>1, <2>3, UsableFacts, DroppedKeeps
<1>. QED
  BY <1>1, <1>2

(* The model of o outlives a step that leaves o and its server alone.      *)
KeepsModel(o) ==
  (/\ Alive(o)' /\ is_fitted(o)' /\ obj'[o].mid = obj[o].mid
   /\ inst' = inst /\ server'.status = "up")
  => Has(server', obj[o].mid)

LEMMA AcquireKeeps ==
  ASSUME IInv, NEW o \in Object, Usable(o), NEW x \in Object, Acquire(x),
         obj'[o].mid = obj[o].mid
  PROVE  Has(server', obj[o].mid)
<1>1. PICK s1 : s1 = IF obj[x].mid = 0 THEN server ELSE release_model(server, obj[x].mid)
  OBVIOUS
<1>2. PICK s2 : s2 = Dropped(s1, RuleOf(x))
  OBVIOUS
<1>3. ServerNow = server /\ Current = inst
  BY UsableFacts
<1>4. \/ /\ obj[x].mid # 0 /\ ~ Releases(server, obj[x].mid)
         /\ server' = s1
      \/ /\ \E k \in {0, mids + 1} : obj' = Renamed(x, inst, k)
         /\ server' = s2 \/ server' = handle_trained_model(s2, mids + 1, FP(x), x)
  BY <1>1, <1>2, <1>3, Zenon DEF Acquire
<1>5. CASE x = o
  <2>1. Releases(server, obj[o].mid)
    BY DEF Usable, Finds, Releases
  <2>2. PICK k \in {0, mids + 1} : obj' = Renamed(x, inst, k)
    BY <1>4, <1>5, <2>1
  <2>3. obj'[o].mid = k
    BY <1>5, <2>2 DEF Renamed
  <2>4. obj[o].mid \in 1 .. mids /\ mids \in Nat
    BY UsableFacts
  <2>. QED
    BY <2>2, <2>3, <2>4
<1>6. CASE x # o
  <2>1. Has(s1, obj[o].mid)
    BY <1>1, <1>6, UsableFacts, ReleaseKeeps
  <2>2. ASSUME NEW k \in {0, mids + 1}, obj' = Renamed(x, inst, k)
        PROVE  Has(s2, obj[o].mid)
    BY <1>2, <2>1, <2>2, RenamedKeeps
  <2>. QED
    BY <1>4, <2>1, <2>2, TrainKeeps
<1>. QED
  BY <1>5, <1>6

LEMMA releaseKeeps ==
  ASSUME IInv, NEW o \in Object, Usable(o), NEW x \in Object, release(x),
         obj'[o].mid = obj[o].mid, is_fitted(o)'
  PROVE  Has(server', obj[o].mid)
<1>1. PICK s1 : s1 = IF Associated(x) THEN release_model(server, obj[x].mid) ELSE server
  OBVIOUS
<1>2. \/ /\ Associated(x) /\ ~ Releases(server, obj[x].mid)
         /\ server' = s1
      \/ /\ server' = Dropped(s1, RuleOf(x))
         /\ obj' = IF x \in Estimator THEN obj ELSE Renamed(x, obj[x].sid, 0)
         /\ fitted' = fitted \ {x}
  BY <1>1, Zenon DEF release
<1>3. CASE x = o
  <2>1. Releases(server, obj[o].mid)
    BY DEF Usable, Finds, Releases
  <2>2. /\ fitted' = fitted \ {o}
        /\ o \notin Estimator => obj' = Renamed(o, obj[o].sid, 0)
    BY <1>2, <1>3, <2>1
  <2>3. o \notin Estimator
    BY <2>2 DEF is_fitted
  <2>4. obj'[o].mid = 0
    BY <2>2, <2>3 DEF Renamed
  <2>. QED
    BY <2>4, UsableFacts
<1>4. CASE x # o
  <2>1. Has(s1, obj[o].mid)
    BY <1>1, <1>4, UsableFacts, ReleaseKeeps
  <2>2. CASE x \in Estimator
    <3>1. RuleOf(x) = NoRule
      BY <2>2, UsableFacts, KindsApart
    <3>. QED
      BY <1>2, <2>1, <3>1, DroppedKeeps
  <2>3. CASE x \notin Estimator
    <3>1. ASSUME obj' = Renamed(x, obj[x].sid, 0)
          PROVE  Has(Dropped(s1, RuleOf(x)), obj[o].mid)
      BY <2>1, <3>1, RenamedKeeps
    <3>. QED
      BY <1>2, <2>1, <2>3, <3>1
  <2>. QED
    BY <2>2, <2>3
<1>. QED
  BY <1>3, <1>4

LEMMA DeleteKeeps ==
  ASSUME IInv, NEW o \in Object, Usable(o), NEW x \in Object, Delete(x),
         obj'[o].mid = obj[o].mid, is_fitted(o)'
  PROVE  Has(server', obj[o].mid)
<1> DEFINE lives == \E g \in Grower : rule[g] = x
<1>1. PICK s1 : s1 = IF ~ lives /\ x \notin Estimator /\ Associated(x)
                     THEN release_model(server, obj[x].mid) ELSE server
  OBVIOUS
<1>2. /\ server' = Dropped(s1, RuleOf(x))
      /\ obj' = IF lives THEN obj ELSE [Renamed(x, 0, 0) EXCEPT ![x] = Blank]
      /\ fitted' = fitted \ {x}
  BY <1>1, Zenon DEF Delete
<1>3. CASE lives
  <2>1. x \in RuleObj
    BY <1>3, KindsApart DEF IInv, Good, ModelInv, References, Object
  <2>2. RuleOf(x) = NoRule
    BY <2>1, UsableFacts, KindsApart
  <2>3. s1 = server
    BY <1>1, <1>3
  <2>. QED
    BY <1>2, <2>2, <2>3, UsableFacts, DroppedKeeps
<1>4. CASE ~ lives
  <2>1. obj'[x] = Blank
    BY <1>2, <1>4 DEF Renamed
  <2>2. x # o
    BY <2>1, UsableFacts DEF Blank
  <2>3. Has(s1, obj[o].mid)
    BY <1>1, <2>2, UsableFacts, ReleaseKeeps
  <2>4. Renamed(x, 0, 0)[o].mid = obj[o].mid
    BY <1>2, <1>4, <2>2 DEF Renamed
  <2>. QED
    BY <1>2, <2>3, <2>4, RenamedKeeps
<1>. QED
  BY <1>3, <1>4

LEMMA generate_rulesKeeps ==
  ASSUME IInv, NEW o \in Object, Usable(o), NEW g \in Grower, generate_rules(g)
  PROVE  Has(server', obj[o].mid)
<1>1. PICK marked : marked = IF server.status = "up"
                             THEN [server EXCEPT !.training = @ \cup {mids + 1}] ELSE server
  OBVIOUS
<1>2. \/ server' = get_model_ptr(marked, obj[g].mid)
      \/ \E r \in Unused : server' = handle_trained_model(marked, mids + 1, FP(r), r)
  BY <1>1, Zenon DEF generate_rules
<1>3. Has(marked, obj[o].mid)
  BY <1>1, UsableFacts DEF Has
<1>4. Has(get_model_ptr(marked, obj[g].mid), obj[o].mid)
  BY <1>3 DEF get_model_ptr, Has
<1>. QED
  BY <1>2, <1>3, <1>4, TrainKeeps

LEMMA NextKeeps ==
  ASSUME IInv, NEW o \in Object, Usable(o), Next
  PROVE  KeepsModel(o)
<1> SUFFICES ASSUME is_fitted(o)', obj'[o].mid = obj[o].mid,
                    inst' = inst, server'.status = "up"
             PROVE  Has(server', obj[o].mid)
  BY DEF KeepsModel
<1>1. ASSUME NEW x \in Object, NewEstimator(x) \/ NewGrower(x) \/ Keep(x)
      PROVE  Has(server', obj[o].mid)
  BY <1>1, UsableFacts DEF NewEstimator, NewGrower, Keep
<1>2. ASSUME NEW x \in Object, NewRules(x)
      PROVE  Has(server', obj[o].mid)
  BY <1>2, UsableFacts DEF NewRules
<1>3. ASSUME NEW x \in Object, FitEstimator(x) \/ LoadEstimator(x)
      PROVE  Has(server', obj[o].mid)
  <2>1. Refits(x)
    BY <1>3, Refitting
  <2>. QED
    BY <2>1, UsableFacts, TrainKeeps DEF Refits, Lost
<1>4. ASSUME NEW x \in Object, Query(x)
      PROVE  Has(server', obj[o].mid)
  <2>1. server' = get_model_ptr(server, obj[x].mid)
    BY <1>4 DEF Query
  <2>. QED
    BY <2>1, UsableFacts DEF get_model_ptr, Has
<1>5. ~ shut_down /\ ~ Dies /\ ~ reset
  BY UsableFacts DEF shut_down, Dies, reset, Lost
<1>. QED
  BY <1>1, <1>2, <1>3, <1>4, <1>5, AcquireKeeps, releaseKeeps, DeleteKeeps,
     generate_rulesKeeps DEF Next

(* Nothing that is done with other objects, or with other servers, takes   *)
(* the model of a fitted object away.                                      *)
THEOREM StaysUsable ==
  Spec => UsableUntilReleased
<1>1. ASSUME IInv, [Next]_vars, NEW o \in Object, Usable(o)
      PROVE  KeepsModel(o)
  <2>1. CASE Next
    BY <1>1, <2>1, NextKeeps
  <2>2. CASE UNCHANGED vars
    BY <1>1, <2>2, UsableFacts DEF vars, KeepsModel
  <2>. QED
    BY <1>1, <2>1, <2>2
<1>2. IInv /\ [Next]_vars =>
        [\A o \in Object :
           LET kept == Alive(o)' /\ is_fitted(o)' /\ obj'[o].mid = obj[o].mid
                        /\ inst' = inst /\ server'.status = "up"
           IN Alive(o) /\ Associated(o) /\ Finds(server, obj[o].mid) /\ kept =>
                obj[o].mid \in DOMAIN server'.table]_vars
  BY <1>1 DEF Usable, KeepsModel, Has
<1>. QED
  BY <1>2, Invariance, PTL DEF Spec, UsableUntilReleased
============================================================================
