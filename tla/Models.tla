------------------------------ MODULE Models ------------------------------
(***************************************************************************)
(* Models on the server and the Python objects that name them              *)
(* (src/foreign_if/server/model_tracker, exrpc_model.hpp, exrpc_ml.hpp;    *)
(* python/frovedis/exrpc/server.py, mllib).  A trained model stays on the  *)
(* server's heap, in model_table under a number the client chose; every    *)
(* later request carries the number, and the server casts what it finds    *)
(* to the type the request implies; a model of an estimator is of one type *)
(* for inputs of floats and of another for doubles.  Which number is alive *)
(* on which server, and with which type, is known only to the objects of   *)
(* the client: each keeps its number, the id of the server it was last     *)
(* fitted with, the type, and whether it is fitted.                        *)
(*                                                                         *)
(* Three ways of keeping a model are modelled: an estimator has one number *)
(* for life (linear_model.py); FPGrowth takes a fresh one at each fit; and *)
(* FPRules, made by FPGrowth.generate_rules, which keeps a reference to    *)
(* it, or loaded from a file.  Calls are synchronous, from one client.     *)
(*                                                                         *)
(* An operator Name_how is Name with a slip in it; no specification uses   *)
(* it.  With it in the place of Name, some property below must fail.       *)
(***************************************************************************)
EXTENDS Naturals, FiniteSets, Functions

CONSTANTS
  Estimator,   \* LogisticRegression objects the program may make
  Grower,      \* FPGrowth objects
  RuleObj,     \* FPRules objects
  NoRule,
  LR,          \* logistic_regression<T>, a type for each type T of elements
  MaxServers,  \* bound on the servers started
  MaxModels    \* bound on the model numbers given out

ASSUME KindsApart == /\ Estimator \cap (Grower \cup RuleObj) = {}
                     /\ Grower \cap RuleObj = {}
                     /\ NoRule \notin Estimator \cup Grower \cup RuleObj
ASSUME TypesApart == LR \cap {"FPM", "FPR", "None"} = {}
ASSUME BoundsAssumption == MaxServers \in Nat /\ MaxModels \in Nat

Object == Estimator \cup Grower \cup RuleObj
FP(o) == IF o \in Grower THEN "FPM" ELSE "FPR"
Untyped == "None"

VARIABLES
  sids,    \* ServerID.__id, the last server id given out
  inst,    \* the server of FrovedisServer.__instance, 0 for None
  mids,    \* ModelID.__mid, the last model number given out
  server,  \* that server: its state, model_table and the two trackers
  obj,     \* obj[o]: the model number and the server id in o, 0 for None
  mtype,   \* mtype[o]: the type an estimator's __mdtype stands for
  fitted,  \* the estimators with isFitted
  held,    \* the objects the program has a reference to
  rule,    \* rule[g]: the rules an FPGrowth refers to
  stuck    \* when the last call was a fit that did not get past the release it
           \* begins with: the object, and the server it was of

vars == <<sids, inst, mids, server, obj, mtype, fitted, held, rule, stuck>>

Blank == [mid |-> 0, sid |-> 0]
Lost == [status |-> "gone", table |-> << >>, deleted |-> {}, training |-> {}]
Fresh == [Lost EXCEPT !.status = "up"]
NotStuck == <<>>

---------------------------------------------------------------------------
(* The server.  A request to one that is gone throws in the client.        *)

(* get_model_ptr, the first thing every request about a model does.        *)
Finds(s, mid) == s.status = "up" /\ mid \in DOMAIN s.table
get_model_ptr(s, mid) ==
  IF s.status = "up" /\ mid \in s.training \ DOMAIN s.table
  THEN [s EXCEPT !.status = "spins"] ELSE s

(* Forgetting comes first: with nothing to release the number stays in     *)
(* deleted_model_tracker.                                                  *)
release_model(s, mid) ==
  IF s.status # "up" \/ mid \in s.deleted THEN s
  ELSE [get_model_ptr(s, mid) EXCEPT !.deleted = @ \cup {mid},
                                     !.table = Restrict(@, DOMAIN @ \ {mid})]
Releases(s, mid) == s.status = "up" /\ (mid \in s.deleted \/ Finds(s, mid))

(* A new MODEL, of type T and for o, under the number.                     *)
handle_trained_model(s, mid, T, o) ==
  [s EXCEPT !.table = [m \in {mid} \cup DOMAIN @ |->
                         IF m = mid THEN <<T, o>> ELSE @[m]]]

---------------------------------------------------------------------------
(* The client.                                                             *)

(* The type a request about o makes the server cast to.                    *)
TypeOf(o) == IF o \in Estimator THEN mtype[o] ELSE FP(o)

is_fitted(o) == IF o \in Estimator THEN o \in fitted ELSE obj[o].mid # 0
isUP(sid) == inst # 0 /\ inst = sid
Associated(o) == is_fitted(o) /\ isUP(obj[o].sid)
Alive(o) == o \in held \/ \E g \in Grower : rule[g] = o
RuleOf(o) == IF o \in Grower THEN rule[o] ELSE NoRule
Unused == {r \in RuleObj : ~Alive(r)}

NewModelID == /\ mids < MaxModels
              /\ mids' = mids + 1

(* getID starts a server when there is none.                               *)
Current == IF inst = 0 THEN sids + 1 ELSE inst
ServerNow == IF inst = 0 THEN Fresh ELSE server
getID == /\ inst # 0 \/ sids < MaxServers
         /\ inst' = Current
         /\ sids' = IF inst = 0 THEN sids + 1 ELSE sids

(* The server after the rules r lost the reference of their FPGrowth: if   *)
(* it was the last one, __del__ releases them, where errors are ignored.   *)
Dropped_though_held(s, r) ==
  IF r = NoRule \/ obj[r].mid = 0 \/ obj[r].sid # Current THEN s
  ELSE release_model(s, obj[r].mid)
Dropped(s, r) ==
  IF r = NoRule \/ r \in held \/ obj[r].mid = 0 \/ obj[r].sid # Current THEN s
  ELSE release_model(s, obj[r].mid)

(* The objects when o gets the server id and the number, and drops its     *)
(* rules.                                                                  *)
Renamed(o, sid, mid) ==
  [x \in Object |->
     IF x = o THEN [mid |-> mid, sid |-> sid]
     ELSE IF x = RuleOf(o) /\ x \notin held THEN Blank ELSE obj[x]]
NoRules(o) == [g \in Grower |-> IF g = o THEN NoRule ELSE rule[g]]

Init ==
  /\ sids = 0 /\ inst = 0 /\ mids = 0 /\ server = Lost
  /\ obj = [o \in Object |-> Blank] /\ mtype = [o \in Estimator |-> Untyped]
  /\ fitted = {} /\ held = {}
  /\ rule = [g \in Grower |-> NoRule]
  /\ stuck = NotStuck

(* Constructors.  An estimator takes its number here; FPRules is decorated *)
(* with set_association.                                                   *)
NewEstimator(o) ==
  /\ o \in Estimator \ held /\ obj[o] = Blank
  /\ NewModelID
  /\ obj' = [obj EXCEPT ![o].mid = mids + 1]
  /\ mtype' = [mtype EXCEPT ![o] = Untyped]
  /\ held' = held \cup {o} /\ stuck' = NotStuck
  /\ UNCHANGED <<sids, inst, server, fitted, rule>>

NewGrower(o) ==
  /\ o \in Grower \ held
  /\ held' = held \cup {o} /\ stuck' = NotStuck
  /\ UNCHANGED <<sids, inst, mids, server, obj, mtype, fitted, rule>>

NewRules(o) ==
  /\ o \in Unused
  /\ getID /\ server' = ServerNow
  /\ obj' = [obj EXCEPT ![o] = [mid |-> 0, sid |-> Current]]
  /\ held' = held \cup {o} /\ stuck' = NotStuck
  /\ UNCHANGED <<mids, mtype, fitted, rule>>

Fitted_keeps_type(o, T, s) ==
  /\ mtype' = IF mtype[o] = Untyped THEN [mtype EXCEPT ![o] = T] ELSE mtype
  /\ \/ fitted' = fitted \ {o} /\ server' = s
     \/ /\ s.status = "up"
        /\ fitted' = fitted \cup {o}
        /\ server' = handle_trained_model(s, obj[o].mid, T, o)

(* What fit and load of LogisticRegression do once the type T of the model *)
(* is known, s being the server when the model is made: the parameters or  *)
(* the server may refuse, or the model is registered.                      *)
Fitted(o, T, s) ==
  /\ mtype' = [mtype EXCEPT ![o] = T]
  /\ \/ fitted' = fitted \ {o} /\ server' = s
     \/ /\ s.status = "up"
        /\ fitted' = fitted \cup {o}
        /\ server' = handle_trained_model(s, obj[o].mid, T, o)

(* LogisticRegression.fit.  A bad C is refused before reset_metadata, an   *)
(* input by check_input after it.  On the server the model under the       *)
(* number, if any, is trained further, through a pointer to the type of    *)
(* the new input: if it was made for another, the behaviour is undefined,  *)
(* and the server may go down as well.                                     *)
FitEstimator(o) ==
  /\ o \in Estimator \cap held
  /\ getID
  /\ obj' = [obj EXCEPT ![o].sid = Current]
  /\ \/ fitted' \in {fitted, fitted \ {o}} /\ server' = ServerNow /\ mtype' = mtype
     \/ \E T \in LR : Fitted(o, T, ServerNow)
     \/ /\ Finds(ServerNow, obj[o].mid)
        /\ \E T \in LR \ {server.table[obj[o].mid][1]} : Fitted(o, T, Lost)
  /\ stuck' = NotStuck
  /\ UNCHANGED <<mids, held, rule>>

(* LogisticRegression.load.  A missing file is refused before              *)
(* reset_metadata, a bad one after it; the type is the one in the file.    *)
(* What the number was of before is not looked at.                         *)
LoadEstimator(o) ==
  /\ o \in Estimator \cap held
  /\ getID
  /\ obj' = [obj EXCEPT ![o].sid = Current]
  /\ \/ fitted' \in {fitted, fitted \ {o}} /\ server' = ServerNow /\ mtype' = mtype
     \/ \E T \in LR : Fitted(o, T, ServerNow)
  /\ stuck' = NotStuck
  /\ UNCHANGED <<mids, held, rule>>

(* FPGrowth.fit, FPGrowth.load and FPRules.load: set_association first,    *)
(* then release, which is now of the number o had and of the server there  *)
(* is; then a new number, kept whether or not the server succeeds.         *)
Acquire_without_release(o) ==
  /\ o \in (Grower \cup RuleObj) \cap held
  /\ getID
  /\ LET s2 == Dropped(ServerNow, RuleOf(o))
     IN /\ rule' = NoRules(o)
        /\ NewModelID /\ s2.status = "up"
        /\ server' = handle_trained_model(s2, mids + 1, FP(o), o)
        /\ obj' = Renamed(o, Current, mids + 1)
        /\ stuck' = NotStuck
  /\ UNCHANGED <<mtype, fitted, held>>
Acquire(o) ==
  /\ o \in (Grower \cup RuleObj) \cap held
  /\ getID
  /\ LET s == ServerNow
         had == obj[o].mid
         s1 == IF had = 0 THEN s ELSE release_model(s, had)
         s2 == Dropped(s1, RuleOf(o))
     IN \/ /\ had # 0 /\ ~Releases(s, had)
           /\ server' = s1
           /\ obj' = [obj EXCEPT ![o].sid = Current]
           /\ stuck' = <<o, obj[o].sid>>
           /\ UNCHANGED <<mids, rule>>
        \/ /\ had # 0 => Releases(s, had)
           /\ rule' = NoRules(o) /\ stuck' = NotStuck
           /\ \/ /\ server' = s2 /\ mids' = mids /\ o \in Grower
                 /\ obj' = Renamed(o, Current, 0)
              \/ /\ NewModelID
                 /\ obj' = Renamed(o, Current, mids + 1)
                 /\ \/ server' = s2
                    \/ /\ s2.status = "up"
                       /\ server' = handle_trained_model(s2, mids + 1, FP(o), o)
  /\ UNCHANGED <<mtype, fitted, held>>

(* FPGrowth.generate_rules.  frovedis_fpr marks the new number as under    *)
(* training before it looks for the model, and never takes the mark back.  *)
generate_rules(g) ==
  /\ g \in Grower \cap held /\ Associated(g) /\ rule[g] = NoRule
  /\ NewModelID
  /\ LET marked == IF server.status = "up"
                   THEN [server EXCEPT !.training = @ \cup {mids + 1}] ELSE server
     IN \/ /\ server' = get_model_ptr(marked, obj[g].mid)
           /\ UNCHANGED <<obj, rule>>
        \/ /\ Finds(server, obj[g].mid)
           /\ \E r \in Unused :
                /\ server' = handle_trained_model(marked, mids + 1, FP(r), r)
                /\ obj' = [obj EXCEPT ![r] = [mid |-> mids + 1, sid |-> inst]]
                /\ rule' = [rule EXCEPT ![g] = r]
  /\ stuck' = NotStuck
  /\ UNCHANGED <<sids, inst, mtype, fitted, held>>

(* The program keeps the rules it got from generate_rules.                 *)
Keep(r) ==
  /\ \E g \in Grower : rule[g] = r /\ Associated(g)
  /\ r \notin held
  /\ held' = held \cup {r} /\ stuck' = NotStuck
  /\ UNCHANGED <<sids, inst, mids, server, obj, mtype, fitted, rule>>

(* A request about the model of o: predict, a getter, save, debug_print.   *)
Query(o) ==
  /\ Alive(o) /\ Associated(o)
  /\ server' = get_model_ptr(server, obj[o].mid)
  /\ stuck' = NotStuck
  /\ UNCHANGED <<sids, inst, mids, obj, mtype, fitted, held, rule>>

(* release, of an object without active association only on the client.    *)
release_keeps_number(o) ==
  /\ o \in held
  /\ server' = IF Associated(o) THEN release_model(server, obj[o].mid) ELSE server
  /\ stuck' = NotStuck
  /\ UNCHANGED <<sids, inst, mids, held, obj, mtype, fitted, rule>>
release(o) ==
  /\ o \in held
  /\ LET asks == Associated(o)
         s1 == IF asks THEN release_model(server, obj[o].mid) ELSE server
         failed == asks /\ ~Releases(server, obj[o].mid)
     IN IF failed
        THEN /\ server' = s1 /\ stuck' = NotStuck
             /\ UNCHANGED <<obj, fitted, rule>>
        ELSE /\ server' = Dropped(s1, RuleOf(o))
             /\ obj' = IF o \in Estimator THEN obj ELSE Renamed(o, obj[o].sid, 0)
             /\ fitted' = fitted \ {o} /\ rule' = NoRules(o)
             /\ stuck' = NotStuck
  /\ UNCHANGED <<sids, inst, mids, mtype, held>>

(* The program's last reference to o goes.  __del__ of an estimator        *)
(* releases nothing; that of the others releases, whatever comes of it.    *)
Delete(o) ==
  /\ o \in held
  /\ held' = held \ {o} /\ stuck' = NotStuck
  /\ LET lives == \E g \in Grower : rule[g] = o
         s1 == IF ~lives /\ o \notin Estimator /\ Associated(o)
               THEN release_model(server, obj[o].mid) ELSE server
     IN /\ server' = Dropped(s1, RuleOf(o))
        /\ obj' = IF lives THEN obj
                  ELSE [Renamed(o, 0, 0) EXCEPT ![o] = Blank]
  /\ fitted' = fitted \ {o} /\ rule' = NoRules(o)
  /\ UNCHANGED <<sids, inst, mids, mtype>>

---------------------------------------------------------------------------
(* Servers come and go: shut_down, a server that dies, and reset once it   *)
(* has.                                                                    *)
shut_down_restarts_numbers ==
  /\ inst # 0 /\ server.status = "up"
  /\ inst' = 0 /\ server' = Lost /\ stuck' = NotStuck
  /\ mids' = 0 /\ sids' = 0
  /\ UNCHANGED <<obj, mtype, fitted, held, rule>>
shut_down ==
  /\ inst # 0 /\ server.status = "up"
  /\ inst' = 0 /\ server' = Lost /\ stuck' = NotStuck
  /\ UNCHANGED <<sids, mids, obj, mtype, fitted, held, rule>>

Dies ==
  /\ inst # 0 /\ server.status = "up"
  /\ server' = Lost /\ stuck' = NotStuck
  /\ UNCHANGED <<sids, inst, mids, obj, mtype, fitted, held, rule>>

reset ==
  /\ inst # 0 /\ server.status = "gone"
  /\ inst' = 0 /\ stuck' = NotStuck
  /\ UNCHANGED <<sids, mids, server, obj, mtype, fitted, held, rule>>

(* A client whose server spins waits for ever.                             *)
Next ==
  /\ server.status # "spins"
  /\ \/ \E o \in Object :
          \/ NewEstimator(o) \/ NewGrower(o) \/ NewRules(o)
          \/ FitEstimator(o) \/ LoadEstimator(o) \/ Acquire(o)
          \/ Query(o) \/ release(o) \/ Delete(o) \/ Keep(o)
     \/ \E g \in Grower : generate_rules(g)
     \/ shut_down \/ Dies \/ reset

Spec == Init /\ [][Next]_vars

---------------------------------------------------------------------------
(* The variables keep their types: server ids stay below the last one      *)
(* given out, an FPGrowth refers only to rules that were made.             *)
TypeOK ==
  /\ sids \in 0 .. MaxServers /\ inst \in 0 .. sids /\ mids \in 0 .. MaxModels
  /\ server.status \in {"up", "gone", "spins"}
  /\ DOMAIN server.table \subseteq 1 .. mids
  /\ \A m \in DOMAIN server.table : server.table[m] \in (LR \cup {"FPM", "FPR"}) \X Object
  /\ server.deleted \subseteq 1 .. mids /\ server.training \subseteq 1 .. mids
  /\ obj \in [Object -> [mid : 0 .. mids, sid : 0 .. sids]]
  /\ mtype \in [Estimator -> LR \cup {Untyped}]
  /\ fitted \subseteq Estimator \cap held /\ held \subseteq Object
  /\ rule \in [Grower -> RuleObj \cup {NoRule}]
  /\ \A g \in Grower : rule[g] # NoRule => obj[rule[g]].sid # 0
  /\ stuck = NotStuck \/ stuck \in Object \X (0 .. sids)

(* What the server finds under the number of an object is the model of     *)
(* that object, whatever servers came and went: no fit continues the       *)
(* training of a model of somebody else.  If the object is fitted, it has  *)
(* the type that every request about it makes get_model_ptr cast it to;    *)
(* only a refit, whose input may be of another type than the last, can     *)
(* cast it to a wrong one (FitEstimator).                                  *)
RequestsReachOwnModel ==
  \A o \in Object : Alive(o) /\ obj[o].mid \in DOMAIN server.table =>
    LET T == server.table[obj[o].mid][1]
    IN /\ server.table[obj[o].mid][2] = o
       /\ T \in (IF o \in Estimator THEN LR ELSE {FP(o)})
       /\ is_fitted(o) => T = TypeOf(o)

(* Rules stay marked as under training for ever, yet no request reaches    *)
(* the loop in get_model_ptr that waits for the end of it, which a server  *)
(* that serves one request at a time would never leave.                    *)
NeverSpins == server.status # "spins"

(* Every model of FPGrowth and FPRules on the server belongs to an object  *)
(* that can still release it: refits, failures, references that go in any  *)
(* order and restarts leave none behind.                                   *)
HeapOwned ==
  \A m \in DOMAIN server.table : server.table[m][1] \in {"FPM", "FPR"} =>
    \E o \in Grower \cup RuleObj :
      Alive(o) /\ obj[o] = [mid |-> m, sid |-> inst]

(* A fitted object whose model is on its server keeps it until it is       *)
(* released or refitted, the server goes, or another takes its place:      *)
(* nothing done with another object takes a model away.                    *)
UsableUntilReleased ==
  [][\A o \in Object :
       LET kept == Alive(o)' /\ is_fitted(o)' /\ obj'[o].mid = obj[o].mid
                    /\ inst' = inst /\ server'.status = "up"
       IN Alive(o) /\ Associated(o) /\ Finds(server, obj[o].mid) /\ kept =>
            obj[o].mid \in DOMAIN server'.table]_vars

(* An object fitted with a server that is gone can be fitted again with    *)
(* the one that is up now (server.py, check_server_state).                 *)
RefitWorks == stuck # NotStuck /\ server.status = "up" => stuck[2] = inst
===========================================================================
