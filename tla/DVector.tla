------------------------------ MODULE DVector ------------------------------
(***************************************************************************)
(* Distributed variables and the objects that own them:                    *)
(* src/frovedis/core/DVID.hpp, node_local.hpp and dvector.hpp.             *)
(*                                                                         *)
(* The data of a variable lives in the dvid_table of every rank under one  *)
(* id, handed out by rank 0.  The user's program on rank 0 holds objects   *)
(* that name ids: an owner deletes its id on every rank when it dies, a    *)
(* view does not.  A dvector also caches, on rank 0, how many elements     *)
(* every rank holds.                                                       *)
(*                                                                         *)
(* Every operation is a few bcast_rpc calls, one after the other, each     *)
(* over on all ranks when it returns (what RpcService promises), so an     *)
(* operation is one step here.  What is left to go wrong: a helper that    *)
(* throws on some ranks only, objects sharing or losing an id, and caches. *)
(* Ids of temporaries that are gone when the operation returns are not     *)
(* counted, and no exception is raised inside sort or align_as, whose      *)
(* helpers exchange data among themselves.                                 *)
(*                                                                         *)
(* An operator Name_how is Name with a slip in it; no specification uses   *)
(* it.  With it in the place of Name, some property below must fail.       *)
(***************************************************************************)
EXTENDS Integers, Functions, Layouts

CONSTANTS
  Obj,        \* names for objects of the user's program
  MaxLen,     \* bound on the elements a rank holds
  MaxDvid,    \* INT_MAX: get_new_dvid throws there
  absent,     \* no entry in a dvid_table
  Faults,     \* TRUE: helpers and user functions may throw, ids may run out
  WithViews,  \* TRUE: the program makes views
  WithSort,   \* TRUE: the program calls sort
  SelfAssign, \* TRUE: the program may assign an object to itself
  Resized,    \* the objects whose partitions functions given to mapv_partitions
              \* may make longer or shorter
  SizedToo    \* TRUE: also when the sizes of the object are cached

ASSUME MaxLenAssumption == MaxLen \in Nat
ASSUME MaxDvidAssumption == MaxDvid \in Nat \ {0}
ASSUME AbsentAssumption == absent \notin Nat
ASSUME FlagsAssumption ==
  /\ Faults \in BOOLEAN /\ WithViews \in BOOLEAN /\ WithSort \in BOOLEAN
  /\ SelfAssign \in BOOLEAN /\ Resized \subseteq Obj /\ SizedToo \in BOOLEAN

Dvid == 1 .. MaxDvid - 1
Lens == [Rank -> 0 .. MaxLen]
NoSizes == [r \in Rank |-> 0]

VARIABLES
  objs,         \* objs[o]: the C++ object named o, or Nothing
  table,        \* table[r][d]: elements rank r holds under id d, or absent
  current_dvid, \* next id to hand out
  process       \* "up", "terminated" by a destructor that throws, "crashed"

vars == <<objs, table, current_dvid, process>>

(* moved says that C++ only lets the program assign to or destroy it.      *)
Object(kind, dvid, is_view, valid, sizevec) ==
  [kind |-> kind, dvid |-> dvid, is_view |-> is_view,
   is_sizevec_valid |-> valid, sizevec |-> sizevec, moved |-> FALSE]
Nothing == Object("none", 0, FALSE, FALSE, NoSizes)

Kinds == {"dvector", "node_local"}
Other(kind) == IF kind = "dvector" THEN "node_local" ELSE "dvector"

Live(o) == objs[o].kind # "none"
Usable(o) == Live(o) /\ ~ objs[o].moved
Vector(o) == Usable(o) /\ objs[o].kind = "dvector"
Owns(o) == Live(o) /\ ~ objs[o].is_view /\ objs[o].dvid # 0


---------------------------------------------------------------------------
(* The tables, and calls on every rank that may throw on some of them.     *)

(* The ranks where get_data(d) throws.                                     *)
Missing(t, d) == {r \in Rank : d = 0 \/ t[r][d] = absent}
Held(d) == Missing(table, d) = {}
Lengths(t, d) == [r \in Rank |-> IF d = 0 \/ t[r][d] = absent THEN 0 ELSE t[r][d]]

(* The ranks on which a helper that reads id d may throw.                  *)
Failing(t, d) ==
  {bad \in SUBSET Rank : Missing(t, d) \subseteq bad /\ (Faults \/ bad = Missing(t, d))}

Stored(t, d, len, bad) ==
  [r \in Rank |-> IF r \in bad THEN t[r] ELSE [t[r] EXCEPT ![d] = len[r]]]
Deleted(t, d) == [r \in Rank |-> IF d = 0 THEN t[r] ELSE [t[r] EXCEPT ![d] = absent]]

Make_anyway(o, kind, len, bad, valid, sizevec) ==
  /\ process = "up" /\ ~ Live(o)
  /\ current_dvid < MaxDvid
  /\ current_dvid' = current_dvid + 1
  /\ table' = Stored(table, current_dvid, len, bad)
  /\ objs' = [objs EXCEPT ![o] = Object(kind, current_dvid, FALSE, valid, sizevec)]
  /\ UNCHANGED process

(* A new id, its data made on the ranks that do not throw, and a new       *)
(* object for it unless the call of the helper ended in an exception.      *)
Make(o, kind, len, bad, valid, sizevec) ==
  /\ process = "up" /\ ~ Live(o)
  /\ current_dvid < MaxDvid
  /\ current_dvid' = current_dvid + 1
  /\ table' = Stored(table, current_dvid, len, bad)
  /\ objs' = IF bad = {}
       THEN [objs EXCEPT ![o] = Object(kind, current_dvid, FALSE, valid, sizevec)] ELSE objs
  /\ UNCHANGED process

(* Only the objects change. *)
Rename(new) ==
  /\ process = "up"
  /\ objs' = new
  /\ UNCHANGED <<table, current_dvid, process>>

---------------------------------------------------------------------------
(* Making objects.                                                         *)

Init ==
  /\ objs = [o \in Obj |-> Nothing]
  /\ table = [r \in Rank |-> [d \in Dvid |-> absent]]
  /\ current_dvid = 1
  /\ process = "up"

(* The default constructor allocates nothing.                              *)
Declare(o) == ~ Live(o) /\ \E k \in Kinds :
  Rename([objs EXCEPT ![o] = Object(k, 0, FALSE, FALSE, NoSizes)])

(* make_..._allocate, make_..._scatter and the loaders.                    *)
Scatter(o) == \E k \in Kinds, len \in Lens, bad \in SUBSET Rank :
  /\ Faults \/ bad = {}
  /\ Make(o, k, len, bad, FALSE, NoSizes)

(* map: as many elements as the source, so a dvector hands on its cache.   *)
Map(o, s) == Usable(s) /\ \E bad \in Failing(table, objs[s].dvid) :
  Make(o, objs[s].kind, Lengths(table, objs[s].dvid), bad,
       objs[s].is_sizevec_valid,
       IF objs[s].is_sizevec_valid THEN objs[s].sizevec ELSE NoSizes)

(* map_partitions, filter, flat_map: any number of elements comes out.     *)
MapPartitions(o, s) ==
  Usable(s) /\ \E len \in Lens, bad \in Failing(table, objs[s].dvid) :
    Make(o, objs[s].kind, len, bad, FALSE, NoSizes)

(* DVID::copy into a new object.                                           *)
Duplicate(o, s, kind, valid, sizevec) ==
  IF objs[s].dvid = 0
    THEN ~ Live(o) /\ Rename([objs EXCEPT ![o] = Object(kind, 0, FALSE, valid, sizevec)])
    ELSE \E bad \in Failing(table, objs[s].dvid) :
           Make(o, kind, Lengths(table, objs[s].dvid), bad, valid, sizevec)

CopyCtor_shallow(o, s) == Usable(s) /\ ~ Live(o) /\ Rename([objs EXCEPT ![o] = objs[s]])

CopyCtor(o, s) ==
  Usable(s) /\ Duplicate(o, s, objs[s].kind, objs[s].is_sizevec_valid, objs[s].sizevec)

(* as_node_local and as_dvector.                                           *)
CopyAs(o, s) == Usable(s) /\ Duplicate(o, s, Other(objs[s].kind), FALSE, NoSizes)

(* viewas_node_local and viewas_dvector.                                   *)
ViewAs(o, s) ==
  /\ WithViews /\ ~ Live(o) /\ Usable(s)
  /\ Rename([objs EXCEPT ![o] = Object(Other(objs[s].kind), objs[s].dvid, TRUE, FALSE, NoSizes)])

MoveCtor_keeps_id(o, s) ==
  /\ ~ Live(o) /\ Usable(s)
  /\ Rename([objs EXCEPT ![o] = objs[s], ![s].sizevec = NoSizes, ![s].moved = TRUE])

(* Both move constructors take the id.  That of node_local swaps is_view   *)
(* too; that of dvector copies the flags and takes the size vector.        *)
MoveCtor(o, s) ==
  /\ ~ Live(o) /\ Usable(s)
  /\ Rename([objs EXCEPT
       ![o] = objs[s],
       ![s].dvid = 0,
       ![s].is_view = IF objs[s].kind = "dvector" THEN @ ELSE FALSE,
       ![s].sizevec = NoSizes,
       ![s].moved = TRUE])

MoveTo_keeps_id(o, s) ==
  /\ ~ Live(o) /\ Usable(s)
  /\ Rename([objs EXCEPT
       ![o] = Object(Other(objs[s].kind), objs[s].dvid, objs[s].is_view, FALSE, NoSizes),
       ![s].moved = TRUE])

(* moveto_node_local and moveto_dvector.                                   *)
MoveTo(o, s) ==
  /\ ~ Live(o) /\ Usable(s)
  /\ Rename([objs EXCEPT
       ![o] = Object(Other(objs[s].kind), objs[s].dvid, objs[s].is_view, FALSE, NoSizes),
       ![s].dvid = 0,
       ![s].moved = TRUE])

---------------------------------------------------------------------------
(* Assigning and destroying.                                               *)

(* operator=(const&): the old data goes first, then the source is copied.  *)
(* An exception on the way leaves the object as it was, its id included.   *)
CopyAssign(o, s) ==
  /\ process = "up" /\ Live(o) /\ Usable(s) /\ objs[o].kind = objs[s].kind
  /\ o = s => SelfAssign
  /\ LET old == objs[o].dvid
         src == objs[s].dvid
         left == IF Owns(o) THEN Deleted(table, old) ELSE table
         copy(d) == [objs EXCEPT ![o] = Object(objs[s].kind, d, FALSE,
                        objs[s].is_sizevec_valid, objs[s].sizevec)]
     IN \/ /\ Owns(o) /\ ~ Held(old)
           /\ table' = left
           /\ UNCHANGED <<objs, current_dvid>>
        \/ /\ Owns(o) => Held(old)
           /\ src = 0
           /\ table' = left
           /\ objs' = copy(0)
           /\ UNCHANGED current_dvid
        \/ /\ Owns(o) => Held(old)
           /\ src # 0 /\ current_dvid < MaxDvid
           /\ current_dvid' = current_dvid + 1
           /\ \E bad \in Failing(left, src) :
                /\ table' = Stored(left, current_dvid, Lengths(left, src), bad)
                /\ objs' = IF bad = {} THEN copy(current_dvid) ELSE objs
        \/ /\ Owns(o) => Held(old)
           /\ src # 0 /\ current_dvid = MaxDvid /\ Faults
           /\ table' = left
           /\ UNCHANGED <<objs, current_dvid>>
  /\ UNCHANGED process

MoveAssign_drops_id(o, s) ==
  /\ o # s /\ Live(o) /\ Usable(s) /\ objs[o].kind = objs[s].kind
  /\ Rename([objs EXCEPT ![o] = objs[s], ![s].dvid = 0, ![s].moved = TRUE])

(* operator=(&&): ids, size vectors and is_view change sides; whether the  *)
(* cache is valid is copied.                                               *)
MoveAssign(o, s) ==
  /\ o # s /\ Live(o) /\ Usable(s) /\ objs[o].kind = objs[s].kind
  /\ Rename([objs EXCEPT
       ![o] = objs[s],
       ![s].dvid = objs[o].dvid,
       ![s].is_view = objs[o].is_view,
       ![s].sizevec = objs[o].sizevec,
       ![s].moved = TRUE])

Destroy_reuses_id(o) ==
  /\ process = "up" /\ Live(o)
  /\ objs' = [objs EXCEPT ![o] = Nothing]
  /\ table' = IF Owns(o) THEN Deleted(table, objs[o].dvid) ELSE table
  /\ process' = IF Owns(o) /\ ~ Held(objs[o].dvid) THEN "terminated" ELSE "up"
  /\ current_dvid' = IF Owns(o) THEN objs[o].dvid ELSE current_dvid

(* The destructor; an exception out of it ends the program.                *)
Destroy(o) ==
  /\ process = "up" /\ Live(o)
  /\ objs' = [objs EXCEPT ![o] = Nothing]
  /\ table' = IF Owns(o) THEN Deleted(table, objs[o].dvid) ELSE table
  /\ process' = IF Owns(o) /\ ~ Held(objs[o].dvid) THEN "terminated" ELSE "up"
  /\ UNCHANGED current_dvid

---------------------------------------------------------------------------
(* Sizes, and what is done with them.                                      *)

(* What sizes() returns, and the object after it: it asks the ranks only   *)
(* if it holds no valid cache, and throws if they do not all know the id.  *)
sizes(o) == IF objs[o].is_sizevec_valid THEN objs[o].sizevec ELSE Lengths(table, objs[o].dvid)
Sizeable(o) == Vector(o) /\ (objs[o].is_sizevec_valid \/ Held(objs[o].dvid))
Sized(o) == [objs EXCEPT ![o].is_sizevec_valid = TRUE, ![o].sizevec = sizes(o)]

Sizes(o) == Sizeable(o) /\ Rename(Sized(o))

(* head_helper and tail_helper keep a vector that is not longer.           *)
Truncate(o, s, trunc) ==
  LET d == objs[s].dvid IN \E bad \in Failing(table, d) :
    /\ process = "up" /\ ~ Live(o) /\ current_dvid < MaxDvid
    /\ current_dvid' = current_dvid + 1
    /\ table' = Stored(table, current_dvid,
                       [r \in Rank |-> Smaller(Lengths(table, d)[r], trunc[r])], bad)
    /\ objs' = IF bad = {}
         THEN [Sized(s) EXCEPT ![o] = Object("dvector", current_dvid, FALSE, FALSE, NoSizes)]
         ELSE Sized(s)
    /\ UNCHANGED process

head(o, s) == Sizeable(s) /\ \E n \in 0 .. N * MaxLen : Truncate(o, s, head_sizes(sizes(s), n))
tail(o, s) == Sizeable(s) /\ \E n \in 0 .. N * MaxLen : Truncate(o, s, tail_sizes(sizes(s), n))

---------------------------------------------------------------------------
(* Changing a dvector in place.                                            *)

InplaceFilter_no_reset(o) ==
  /\ process = "up" /\ Vector(o)
  /\ \E len \in Lens, bad \in Failing(table, objs[o].dvid) :
       /\ \A r \in Rank : len[r] <= Lengths(table, objs[o].dvid)[r]
       /\ table' = Stored(table, objs[o].dvid, len, bad)
  /\ UNCHANGED <<objs, current_dvid, process>>

(* mapv_partitions, and mapv of a node_local: the function gets the data   *)
(* by reference and may do to it what it likes, even where it throws; the  *)
(* cache stays.  The functions of the other calls get their arguments so   *)
(* too; one that changes them counts as one of these and another after it. *)
MapvPartitions(o) ==
  /\ process = "up" /\ Usable(o)
  /\ LET d == objs[o].dvid
         kept == o \notin Resized \/ (objs[o].is_sizevec_valid /\ ~ SizedToo)
     IN \E len \in IF kept THEN {Lengths(table, d)} ELSE Lens :
          table' = Stored(table, d, len, Missing(table, d))
  /\ UNCHANGED <<objs, current_dvid, process>>

(* The cache is reset after the call, so not if the call throws.           *)
InplaceFilter(o) ==
  /\ process = "up" /\ Vector(o)
  /\ \E len \in Lens, bad \in Failing(table, objs[o].dvid) :
       /\ \A r \in Rank : len[r] <= Lengths(table, objs[o].dvid)[r]
       /\ table' = Stored(table, objs[o].dvid, len, bad)
       /\ objs' = IF bad = {} THEN [objs EXCEPT ![o].is_sizevec_valid = FALSE] ELSE objs
  /\ UNCHANGED <<current_dvid, process>>

Clear(o) ==
  /\ process = "up" /\ Vector(o) /\ Held(objs[o].dvid)
  /\ table' = Stored(table, objs[o].dvid, NoSizes, {})
  /\ objs' = [objs EXCEPT ![o].is_sizevec_valid = FALSE]
  /\ UNCHANGED <<current_dvid, process>>

(* align_as.  The data that arrives is what the senders were told to send; *)
(* if the cache it was computed from is stale, they read past the end of   *)
(* their vectors and send what they find there, or crash.                  *)
AlignAs(o, dst) ==
  /\ process = "up" /\ Sizeable(o) /\ ~ objs[o].is_view /\ Held(objs[o].dvid)
  /\ Total(dst) = Total(sizes(o))
  /\ \/ dst = sizes(o) /\ Rename(Sized(o))
     \/ /\ dst # sizes(o) /\ current_dvid < MaxDvid
        /\ current_dvid' = current_dvid + 1
        /\ LET arrived == [r \in Rank |->
                 SumFunction([s \in Rank |-> alltoall_size(sizes(o), dst, s, r)])]
           IN table' = Deleted(Stored(table, current_dvid, arrived, {}), objs[o].dvid)
        /\ objs' = [objs EXCEPT ![o] = Object("dvector", current_dvid, FALSE, TRUE, dst)]
        /\ UNCHANGED process
     \/ /\ dst # sizes(o) /\ sizes(o) # Lengths(table, objs[o].dvid)
        /\ process' = "crashed"
        /\ UNCHANGED <<objs, table, current_dvid>>

Align(o) == \E dst \in Lens : AlignAs(o, dst)
AlignBlock(o) == Sizeable(o) /\ AlignAs(o, block_size(Total(sizes(o))))

(* sort redistributes the elements under a new id.  Neither the old data,  *)
(* nor the exchanged pieces, is deleted, and the cache stays as it was.    *)
Sort(o) ==
  /\ WithSort /\ process = "up" /\ Vector(o) /\ ~ objs[o].is_view /\ Held(objs[o].dvid)
  /\ current_dvid + 1 < MaxDvid
  /\ current_dvid' = current_dvid + 2
  /\ \E len \in Lens :
       LET exchanged == [r \in Rank |-> N]
           d == current_dvid + 1
       IN /\ Total(len) = Total(Lengths(table, objs[o].dvid))
          /\ table' = Stored(Stored(table, current_dvid, exchanged, {}), d, len, {})
          /\ objs' = [objs EXCEPT ![o].dvid = d]
  /\ UNCHANGED process

Next == \E o \in Obj :
  \/ Declare(o) \/ Scatter(o) \/ Destroy(o) \/ Sizes(o)
  \/ MapvPartitions(o) \/ InplaceFilter(o) \/ Clear(o)
  \/ Align(o) \/ AlignBlock(o) \/ Sort(o)
  \/ \E s \in Obj :
       \/ Map(o, s) \/ MapPartitions(o, s) \/ CopyCtor(o, s) \/ CopyAs(o, s) \/ ViewAs(o, s)
       \/ MoveCtor(o, s) \/ MoveTo(o, s) \/ CopyAssign(o, s) \/ MoveAssign(o, s)
       \/ head(o, s) \/ tail(o, s)

Spec == Init /\ [][Next]_vars

---------------------------------------------------------------------------
TypeOK ==
  /\ objs \in [Obj -> [kind : Kinds \cup {"none"}, dvid : 0 .. MaxDvid - 1, is_view : BOOLEAN,
                       is_sizevec_valid : BOOLEAN, sizevec : Lens, moved : BOOLEAN]]
  /\ table \in [Rank -> [Dvid -> Nat \cup {absent}]]
  /\ current_dvid \in 1 .. MaxDvid
  /\ process \in {"up", "terminated", "crashed"}

(* sizes() answers with the sizes the ranks really have, whether it asks   *)
(* them or answers from the cache (get, put, head, tail, align_as and      *)
(* savebinary all work from it).  It is so for programs that do not sort   *)
(* and whose functions given to mapv_partitions resize nothing that has    *)
(* its sizes cached: neither call resets the cache.                        *)
CacheFresh ==
  \A o \in Obj : Vector(o) /\ objs[o].is_sizevec_valid =>
    Held(objs[o].dvid) /\ objs[o].sizevec = Lengths(table, objs[o].dvid)

(* RAII: whatever a rank stores belongs to an object that will delete it.  *)
NoLeak ==
  \A r \in Rank, d \in Dvid : table[r][d] # absent => \E o \in Obj : Owns(o) /\ objs[o].dvid = d

(* No destructor throws, which would be the end of the program.            *)
DestructorsSafe == process # "terminated"

(* No id has two owners, so none is deleted twice or under another's feet. *)
SingleOwner ==
  \A o, p \in Obj : Owns(o) /\ Owns(p) /\ objs[o].dvid = objs[p].dvid => o = p

(* Whatever throws where, an owner's data is on all the ranks or on none.  *)
OwnedAlike ==
  \A o \in Obj : Owns(o) => Missing(table, objs[o].dvid) \in {{}, Rank}

(* Data never appears under an id that an object still names: a dangling   *)
(* view, or an owner that lost its data, cannot come to name other data.   *)
NamesNeverRebound ==
  [][\A r \in Rank, d \in Dvid : table[r][d] = absent /\ table'[r][d] # absent =>
       \A o \in Obj : objs[o].dvid # d]_vars

(* Objects behave like values that live on their own; only those whose     *)
(* partitions are resized by functions given to mapv_partitions may become *)
(* longer or shorter where they are.                                       *)
Values == INSTANCE DistValues WITH Edits <- Resized, vals <- [o \in Obj |->
  IF ~ Live(o) THEN [is |-> "out of scope"]
  ELSE IF objs[o].moved THEN [is |-> "moved from"]
  ELSE IF objs[o].dvid = 0 THEN [is |-> "empty"]
  ELSE [is |-> "data", len |-> Lengths(table, objs[o].dvid)]]

BehavesAsValues == Values!Spec
=============================================================================
