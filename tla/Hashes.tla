------------------------------- MODULE Hashes -------------------------------
(***************************************************************************)
(* One Ruby hash, the methods of dispatch_hash, and the iterators that     *)
(* call a block for its entries.                                           *)
(*                                                                         *)
(* A RubyHash is a pair of parallel arrays in order of insertion that      *)
(* every operation searches from the start; `mem` holds both, with the     *)
(* slots past len keeping what they last held.  The hash is shared, so the *)
(* block of an iterator can change it between two entries, and several     *)
(* iterators read the slot at their position again after the block.  The   *)
(* hash may be ENV, whose entries some methods copy to the environment of  *)
(* the process.                                                            *)
(***************************************************************************)
EXTENDS Integers, FiniteSets, SequencesExt, Pieces

CONSTANTS
    Keys,    \* the keys, records [name, id]: two with one name are equal, not identical
    Vals,    \* the values other than nil
    Nil,     \* Ruby's nil
    Others,  \* the hashes that are passed as arguments, sequences of entries
    MaxRekeyed, \* the keys that transform_keys! has room for: 256 in the code
    MaxLen,  \* bound on the number of entries
    Changes  \* bound on the changes a block makes while one iterator runs

VARIABLES
    mem,      \* [buf, len]: the slots ever used, and how many are live
    mode,     \* [frozen, identity]: the flags of the hash
    default,  \* [value, proc]: the default value, and whether there is a default proc
    environ,  \* what the process holds for the names of an ENV, or NotEnv
    loop,     \* the iterator that is inside its block, or NoLoop
    last      \* the last operation that ended, and what it returned

vars == <<mem, mode, default, environ, loop, last>>

Values == Vals \cup {Nil}
Names == {k.name : k \in Keys}
Entries == [key : Keys, val : Values]
Truthy(v) == v # Nil

NotEnv == [is |-> FALSE]
NoLoop == [op |-> "none"]

Self == [k |-> "self"]
Val(v) == [k |-> "val", v |-> v]
Truth(b) == [k |-> "bool", b |-> b]
Table(t, id) == [k |-> "hash", t |-> t, id |-> id]
List(s) == [k |-> "list", s |-> s]
Raised(class) == [k |-> "raised", class |-> class]

(***************************************************************************)
(* Tables.  A table is the sequence of its entries; id says whether keys   *)
(* are compared by identity.                                               *)
(***************************************************************************)
Same(k, l, id) == IF id THEN k = l ELSE k.name = l.name

\* The position of the first entry for k, 0 when there is none.
Position(t, k, id) ==
    SelectInSeq(t, LAMBDA e : Same(e.key, k, id))

Has(t, k, id) == Position(t, k, id) # 0

\* Mutant of Put: the table is not searched.
PutAppends(t, k, v, id) == Append(t, [key |-> k, val |-> v])

\* val_hash_set: an entry that is there keeps its place and its key.
Put(t, k, v, id) ==
    IF Has(t, k, id) THEN [t EXCEPT ![Position(t, k, id)].val = v]
    ELSE Append(t, [key |-> k, val |-> v])

\* The entries es stored one after another.
PutAll(t, es, id) ==
    LET put[n \in 0 .. Len(es)] ==
            IF n = 0 THEN t ELSE Put(put[n - 1], es[n].key, es[n].val, id)
    IN  put[Len(es)]

FromEntries(es, id) == PutAll(<<>>, es, id)

\* val_hash_delete: the entries behind it move down.
Without(t, k, id) ==
    IF Has(t, k, id) THEN RemoveAt(t, Position(t, k, id)) ELSE t

Get(t, k, id, otherwise) ==
    IF Has(t, k, id) THEN t[Position(t, k, id)].val ELSE otherwise

\* The entries whose value is not nil.
Filled(t) == Picked(t, {i \in DOMAIN t : t[i].val # Nil})

Unique(t, id) == \A i, j \in DOMAIN t : Same(t[i].key, t[j].key, id) => i = j

\* A hash that is passed holds one entry for a name.
ASSUME HashesAssumption ==
    /\ \A k \in Keys : DOMAIN k = {"name", "id"}
    /\ Nil \notin Vals
    /\ MaxRekeyed \in Nat \ {0} /\ MaxLen \in Nat \ {0} /\ Changes \in Nat
    /\ \A o \in Others : o \in BoundedSeq(Entries, MaxLen) /\ Unique(o, FALSE)

\* The entry with value v that comes first.
ByValue(t, v) == SelectInSeq(t, LAMBDA e : e.val = v)

Live == SubSeq(mem.buf, 1, mem.len)
Id == mode.identity

\* The slots behind the new content keep what they held.
Rewrite(t) == [buf |-> t \o SubSeq(mem.buf, Len(t) + 1, Len(mem.buf)), len |-> Len(t)]

-----------------------------------------------------------------------------
(***************************************************************************)
(* The process environment.  A name set to nil is removed from it.         *)
(***************************************************************************)
Synced(env, k, v) ==
    IF ~env.is THEN env
    ELSE IF v = Nil THEN [env EXCEPT !.vars[k.name] = Nil]
    ELSE [env EXCEPT !.vars[k.name] = v]

SyncedAll(env, es) ==
    LET synced[n \in 0 .. Len(es)] ==
            IF n = 0 THEN env ELSE Synced(synced[n - 1], es[n].key, es[n].val)
    IN  synced[Len(es)]

-----------------------------------------------------------------------------
(***************************************************************************)
(* Methods that call no block                                              *)
(***************************************************************************)
\* The running iterator remembers that its block has changed the hash.
Disturbed == IF loop = NoLoop THEN NoLoop ELSE [loop EXCEPT !.changes = @ + 1]

Answer(op, out) ==
    /\ last' = [op |-> op, out |-> out]
    /\ UNCHANGED <<mem, mode, default, environ, loop>>

\* if (h->frozen) { *out = eval_raise_class(... "FrozenError") ... }
Change(op, m, env, out) ==
    IF mode.frozen THEN Answer(op, Raised("FrozenError"))
    ELSE /\ m.len <= MaxLen
         /\ loop # NoLoop => loop.changes < Changes
         /\ mem' = m /\ environ' = env
         /\ loop' = Disturbed
         /\ last' = [op |-> op, out |-> out]
         /\ UNCHANGED <<mode, default>>

\* Mutant of Store: ENV is not copied to the process.
StoreUnsynced(k, v) == Change("[]=", Rewrite(Put(Live, k, v, Id)), environ, Val(v))

Store(k, v) ==
    Change("[]=", Rewrite(Put(Live, k, v, Id)), Synced(environ, k, v), Val(v))

Delete(k) ==
    Change("delete", Rewrite(Without(Live, k, Id)), Synced(environ, k, Nil),
           Val(Get(Live, k, Id, Nil)))

Clear == Change("clear", [mem EXCEPT !.len = 0], environ, Self)

\* merge! without a block: the entries are stored, but not copied to the process.
MergeBang(es) == Change("merge!", Rewrite(PutAll(Live, es, Id)), environ, Self)

CompactBang ==
    Change("compact!", Rewrite(Filled(Live)), environ,
           IF Filled(Live) # Live THEN Self ELSE Val(Nil))

\* replace takes over the other hash's entries, defaults and mode.  What it
\* removes stays in the process environment.
Replace(es, id) ==
    IF mode.frozen THEN Answer("replace", Raised("FrozenError"))
    ELSE /\ loop # NoLoop => loop.changes < Changes
         /\ mem' = Rewrite(es)
         /\ environ' = SyncedAll(environ, es)
         /\ mode' = [mode EXCEPT !.identity = id]
         /\ default' = [value |-> Nil, proc |-> FALSE]
         /\ loop' = Disturbed
         /\ last' = [op |-> "replace", out |-> Self]

Freeze ==
    /\ mode' = [mode EXCEPT !.frozen = TRUE]
    /\ last' = [op |-> "freeze", out |-> Self]
    /\ UNCHANGED <<mem, default, environ, loop>>

\* The table is left as it is: equal keys that are not identical stay one entry.
CompareByIdentity ==
    IF mode.frozen THEN Answer("compare_by_identity", Raised("FrozenError"))
    ELSE /\ loop # NoLoop => loop.changes < Changes
         /\ mode' = [mode EXCEPT !.identity = TRUE]
         /\ loop' = Disturbed
         /\ last' = [op |-> "compare_by_identity", out |-> Self]
         /\ UNCHANGED <<mem, default, environ>>

\* rehash does nothing: there is no index to rebuild.
Rehash == Answer("rehash", IF mode.frozen THEN Raised("FrozenError") ELSE Self)

SetDefault(op, d) ==
    IF mode.frozen THEN Answer(op, Raised("FrozenError"))
    ELSE /\ default' = d
         /\ last' = [op |-> op, out |-> Val(d.value)]
         /\ UNCHANGED <<mem, mode, environ, loop>>

\* default= drops the proc; default_proc= drops the value, unless it is nil.
DefaultAssign(v) == SetDefault("default=", [value |-> v, proc |-> FALSE])
DefaultProcAssign(isBlock) ==
    SetDefault("default_proc=",
               IF isBlock THEN [value |-> Nil, proc |-> TRUE] ELSE [default EXCEPT !.proc = FALSE])

-----------------------------------------------------------------------------
(***************************************************************************)
(* Methods that leave the hash alone                                       *)
(***************************************************************************)
\* The default proc is a block: its call is the caller's affair here.
Fallback == IF default.proc THEN [k |-> "call"] ELSE Val(default.value)

Lookup(k) ==
    Answer("[]", IF Has(Live, k, Id) THEN Val(Get(Live, k, Id, Nil)) ELSE Fallback)

Fetch(k) ==
    Answer("fetch", IF Has(Live, k, Id) THEN Val(Get(Live, k, Id, Nil)) ELSE Raised("KeyError"))

HasKey(k) == Answer("key?", Truth(Has(Live, k, Id)))
HasValue(v) == Answer("value?", Truth(ByValue(Live, v) # 0))
DefaultFor(k) == Answer("default", Fallback)

\* values_at never calls the default proc.
ValuesAt(ks) == Answer("values_at", List([i \in DOMAIN ks |-> Get(Live, ks[i], Id, default.value)]))

FetchValues(ks) ==
    Answer("fetch_values",
           IF \E k \in ToSet(ks) : ~Has(Live, k, Id) THEN Raised("KeyError")
           ELSE List([i \in DOMAIN ks |-> Get(Live, ks[i], Id, Nil)]))

Key(v) ==
    Answer("key", LET i == ByValue(Live, v) IN IF i = 0 THEN Val(Nil) ELSE List(<<Live[i].key>>))
RAssoc(v) ==
    Answer("rassoc", LET i == ByValue(Live, v) IN IF i = 0 THEN Val(Nil) ELSE List(<<Live[i]>>))

\* assoc compares by equality even where the hash compares by identity.
Assoc(k) ==
    Answer("assoc", LET i == Position(Live, k, FALSE)
                    IN  IF i = 0 THEN Val(Nil) ELSE List(<<Live[i]>>))

KeysOf == Answer("keys", List([i \in DOMAIN Live |-> Live[i].key]))
ValuesOf == Answer("values", List([i \in DOMAIN Live |-> Live[i].val]))
ToA == Answer("to_a", List(Live))
Size == Answer("size", [k |-> "int", n |-> mem.len, empty |-> mem.len = 0])

\* The entries of several hashes stored one after another.
MergeAll(t, ess, id) ==
    LET merged[n \in 0 .. Len(ess)] == IF n = 0 THEN t ELSE PutAll(merged[n - 1], ess[n], id)
    IN  merged[Len(ess)]

Merge(ess) == Answer("merge", Table(MergeAll(Live, ess, Id), Id))
Dup == Answer("dup", Table(FromEntries(Live, Id), Id))
Compact == Answer("compact", Table(FromEntries(Filled(Live), Id), Id))
Slice(ks) ==
    Answer("slice", LET found == Picked(ks, {i \in DOMAIN ks : Has(Live, ks[i], Id)})
                    IN  Table(FromEntries([i \in DOMAIN found |->
                                  [key |-> found[i], val |-> Get(Live, found[i], Id, Nil)]], Id), Id))
Except(ks) ==
    Answer("except",
           LET kept == {i \in DOMAIN Live : ~\E k \in ToSet(ks) : Same(Live[i].key, k, Id)}
           IN  Table(FromEntries(Picked(Live, kept), Id), Id))

\* invert: the last of several entries with one value gives the key.
Invert ==
    Answer("invert",
           LET at(v) == {i \in DOMAIN Live : Live[i].val = v}
           IN  [k |-> "inverse",
                f |-> [v \in {Live[i].val : i \in DOMAIN Live} |-> Live[Max(at(v))].key]])

-----------------------------------------------------------------------------
(***************************************************************************)
(* Iterators.  i is the position of the entry whose block runs, n the      *)
(* length at the start as far as there is room, seen what the blocks so far were given and have    *)
(* returned: the key and value of the slot, after the block, and ret.      *)
(* changes and whole are there for the properties.                         *)
(***************************************************************************)
Visits   == {"each", "map", "filter_map", "count", "select", "reject", "transform_values",
             "transform_keys", "find", "any?", "all?", "none?"}
Filters  == {"select!", "reject!"}
InPlace  == Filters \cup {"transform_values!", "transform_keys!"}

\* The values a block may return.
Returns(op) == IF op \in {"transform_keys", "transform_keys!"} THEN Keys ELSE Values

\* A block's value ends these before the last entry.
Stops(op, r) ==
    \/ op \in {"find", "any?", "none?"} /\ Truthy(r)
    \/ op = "all?" /\ ~Truthy(r)

\* What the block returned a truthy value for, or a falsy one.
Chosen(seen, keep) == Picked(seen, {i \in DOMAIN seen : Truthy(seen[i].ret) = keep})

\* The entries as the block was given them.
Pairs(seen) == [i \in DOMAIN seen |-> [key |-> seen[i].key, val |-> seen[i].val]]

\* What the iterator returns, from what it has seen; stopped says that the last
\* block ended it.
Outcome(op, seen, stopped) ==
    LET rets(es) == [i \in DOMAIN es |-> es[i].ret]
    IN  CASE op = "map" -> List(rets(seen))
          [] op = "filter_map" -> List(rets(Chosen(seen, TRUE)))
          [] op = "count" -> [k |-> "int", n |-> Len(Chosen(seen, TRUE))]
          [] op = "select" -> Table(FromEntries(Pairs(Chosen(seen, TRUE)), Id), Id)
          [] op = "reject" -> Table(FromEntries(Pairs(Chosen(seen, FALSE)), Id), Id)
          [] op = "transform_values" ->
                 Table(FromEntries([i \in DOMAIN seen |->
                           [key |-> seen[i].key, val |-> seen[i].ret]], Id), Id)
          [] op = "transform_keys" ->
                 Table(FromEntries([i \in DOMAIN seen |->
                           [key |-> seen[i].ret, val |-> seen[i].val]], Id), Id)
          [] op = "find" ->
                 IF stopped THEN List(<<[key |-> Last(seen).key, val |-> Last(seen).val]>>)
                 ELSE Val(Nil)
          [] op = "any?" -> Truth(stopped)
          [] op \in {"all?", "none?"} -> Truth(~stopped)
          [] op \in Filters -> IF Chosen(seen, op = "reject!") # <<>> THEN Self ELSE Val(Nil)
          [] OTHER -> Self

\* transform_keys! writes the new keys, unseen by any comparison, at the end.
Rekeyed(l) ==
    [mem EXCEPT !.buf = [i \in DOMAIN @ |->
        IF i <= Len(l.seen) THEN [@[i] EXCEPT !.key = l.seen[i].ret] ELSE @[i]]]

End(l, m, out) ==
    /\ mem' = m
    /\ loop' = NoLoop
    /\ last' = [op |-> l.op, out |-> out, clean |-> l.changes = 0, seen |-> l.seen, whole |-> l.whole]

\* Value new_keys[256]: transform_keys! leaves the entries behind these alone.
Room(op, len) == IF op = "transform_keys!" /\ len > MaxRekeyed THEN MaxRekeyed ELSE len

\* transform_keys! counts its entries once, the others read the length for
\* every entry.
HasMore(l, m, i) == i < (IF l.op = "transform_keys!" THEN l.n ELSE m.len)

\* Run the block for the entry at i, or end.
Proceed(l, m, i) ==
    IF HasMore(l, m, i)
    THEN /\ mem' = m
         /\ loop' = [l EXCEPT !.i = i]
         /\ last' = [op |-> "block", out |-> Self]
    ELSE End(l, IF l.op = "transform_keys!" THEN Rekeyed(l) ELSE m, Outcome(l.op, l.seen, FALSE))

StartLoop(op) ==
    /\ loop = NoLoop
    /\ UNCHANGED <<mode, default, environ>>
    /\ IF mode.frozen /\ op \in InPlace
       THEN /\ last' = [op |-> op, out |-> Raised("FrozenError")]
            /\ UNCHANGED <<mem, loop>>
       ELSE Proceed([op |-> op, i |-> 0, n |-> Room(op, mem.len), seen |-> <<>>, changes |-> 0,
                     whole |-> Live], mem, 0)

\* Mutant of Dropped: a filter deletes what it should keep.
DroppedOpposite(op, r) == op = IF Truthy(r) THEN "select!" ELSE "reject!"

Dropped(op, r) == op = IF Truthy(r) THEN "reject!" ELSE "select!"

\* A filter deletes by the key that is in its slot now: when the block has
\* deleted the entry already, that is the key of the next one.  The position
\* stays where it is after a deletion.
BlockReturns(r) ==
    LET slot == mem.buf[loop.i + 1]
        l == [loop EXCEPT !.seen = Append(@, [key |-> slot.key, val |-> slot.val, ret |-> r])]
        gone == Dropped(l.op, r)
    IN  /\ loop # NoLoop
        /\ loop.op \in Visits \cup InPlace
        /\ Len(loop.seen) < MaxLen + Changes
        /\ UNCHANGED <<mode, default, environ>>
        /\ IF Stops(l.op, r) THEN End(l, mem, Outcome(l.op, l.seen, TRUE))
           ELSE Proceed(l,
                        IF gone THEN Rewrite(Without(Live, slot.key, Id))
                        ELSE IF l.op = "transform_values!" THEN [mem EXCEPT !.buf[l.i + 1].val = r]
                        ELSE mem,
                        IF gone THEN l.i ELSE l.i + 1)

(***************************************************************************)
(* merge! with a block: the entries of the argument are stored one after   *)
(* another, and the block decides for each key that is there already.      *)
(* The frozen flag was looked at before the first one.                     *)
(***************************************************************************)
\* Store rest up to the first key that is there; wait in its block.
MergeOn(t, rest, changes) ==
    LET clash == SelectInSeq(rest, LAMBDA e : Has(t, e.key, Id))
        done == PutAll(t, IF clash = 0 THEN rest ELSE SubSeq(rest, 1, clash - 1), Id)
    IN  /\ Len(done) <= MaxLen
        /\ mem' = Rewrite(done)
        /\ loop' = IF clash = 0 THEN NoLoop
                   ELSE [op |-> "merge!", rest |-> SubSeq(rest, clash, Len(rest)), changes |-> changes]
        /\ last' = [op |-> IF clash = 0 THEN "merge!" ELSE "block", out |-> Self]

StartMerge(es) ==
    /\ loop = NoLoop
    /\ UNCHANGED <<mode, default, environ>>
    /\ IF mode.frozen
       THEN /\ last' = [op |-> "merge!", out |-> Raised("FrozenError")]
            /\ UNCHANGED <<mem, loop>>
       ELSE MergeOn(Live, es, 0)

MergeReturns(r) ==
    /\ loop # NoLoop /\ loop.op = "merge!"
    /\ MergeOn(Put(Live, Head(loop.rest).key, r, Id), Tail(loop.rest), loop.changes)
    /\ UNCHANGED <<mode, default, environ>>

\* break, or an exception: what was done so far stays; the new keys of
\* transform_keys! are lost.
BlockLeaves ==
    /\ loop # NoLoop
    /\ loop' = NoLoop
    /\ last' = [op |-> loop.op, out |-> [k |-> "left"]]
    /\ UNCHANGED <<mem, mode, default, environ>>

-----------------------------------------------------------------------------
\* The variables of the process for the entries of an ENV.
Mirror(t) == [n \in Names |-> LET i == SelectInSeq(t, LAMBDA e : e.key.name = n)
                              IN  IF i = 0 THEN Nil ELSE t[i].val]

\* The start: an ordinary hash, or the ENV made from the host environment.
Tables == {t \in BoundedSeq(Entries, MaxLen) : Unique(t, FALSE)}

Init ==
    /\ \E t \in Tables :
           /\ mem = [buf |-> t, len |-> Len(t)]
           /\ \/ environ = NotEnv
              \/ /\ \A e \in ToSet(t) : e.val # Nil
                 /\ environ = [is |-> TRUE, vars |-> Mirror(t)]
    /\ mode = [frozen |-> FALSE, identity |-> FALSE]
    /\ default = [value |-> Nil, proc |-> FALSE]
    /\ loop = NoLoop
    /\ last = [op |-> "new", out |-> Self]

Mutate ==
    \/ \E k \in Keys : Delete(k) \/ \E v \in Values : Store(k, v)
    \/ \E o \in Others : MergeBang(o) \/ \E id \in BOOLEAN : Replace(o, id)
    \/ Clear \/ CompactBang \/ Freeze \/ CompareByIdentity \/ Rehash
    \/ \E v \in Values : DefaultAssign(v)
    \/ \E b \in BOOLEAN : DefaultProcAssign(b)

\* A query inside a block answers as one outside does.
Query ==
    /\ loop = NoLoop
    /\ \/ \E k \in Keys : Lookup(k) \/ Fetch(k) \/ HasKey(k) \/ DefaultFor(k) \/ Assoc(k)
       \/ \E v \in Values : HasValue(v) \/ Key(v) \/ RAssoc(v)
       \/ \E k, l \in Keys :
              ValuesAt(<<k, l>>) \/ FetchValues(<<k, l>>) \/ Slice(<<k, l>>) \/ Except(<<k, l>>)
       \/ \E o, p \in Others : Merge(<<o, p>>)
       \/ KeysOf \/ ValuesOf \/ ToA \/ Size \/ Dup \/ Compact \/ Invert

Iterate ==
    \/ \E op \in Visits \cup InPlace : StartLoop(op)
    \/ \E o \in Others : StartMerge(o)
    \/ \E r \in Returns(loop.op) : BlockReturns(r)
    \/ \E r \in Values : MergeReturns(r)
    \/ BlockLeaves

Next == Mutate \/ Query \/ Iterate

Spec == Init /\ [][Next]_vars

-----------------------------------------------------------------------------
(***************************************************************************)
(* Properties                                                              *)
(***************************************************************************)
\* Types: the live slots are among those in use; an iterator whose block has
\* not changed the hash stands at a live slot.
TypeOK ==
    /\ mem.buf \in BoundedSeq(Entries, MaxLen) /\ mem.len \in 0 .. Len(mem.buf)
    /\ mode \in [frozen : BOOLEAN, identity : BOOLEAN]
    /\ default \in [value : Values, proc : BOOLEAN]
    /\ environ = NotEnv \/ environ.vars \in [Names -> Values]
    /\ loop # NoLoop /\ loop.op # "merge!" =>
           /\ loop.i \in 0 .. Len(mem.buf) - 1
           /\ loop.changes = 0 => loop.i < mem.len

Stepped == loop # NoLoop /\ loop' \notin {loop, Disturbed}

\* No operation brings a second entry for a key into the hash, in either mode
\* of comparison and whatever blocks do between two entries.  The exception is
\* transform_keys!, which writes the keys its block returned into the slots.
KeysUnique ==
    [][ Unique(Live, Id) =>
            Unique(Live', Id') \/ (Stepped /\ loop.op = "transform_keys!") ]_vars

\* Entries keep their order: what was there and stays is in the order it was,
\* and new keys come after it.
OrderKept ==
    [][ (Unique(Live, Id) /\ last'.op # "replace" /\ ~(Stepped /\ loop.op = "transform_keys!")) =>
            \A i, j \in DOMAIN Live' :
                LET a == Position(Live, Live'[i].key, Id)  b == Position(Live, Live'[j].key, Id)
                IN  (i < j /\ b # 0) => (a # 0 /\ a < b) ]_vars

\* A frozen hash keeps its entries, except that an in-place iterator looked at
\* the flag only before its first block.
FrozenKeeps == [][ (mode.frozen /\ Live' # Live) => (Stepped /\ loop.op \in InPlace \cup {"merge!"}) ]_vars

\* The methods that leave a process environment behind its ENV.
Unmirrored == {"clear", "merge!", "compact!", "replace", "select!", "reject!", "transform_values!",
               "transform_keys!", "block"}

\* Storing to and deleting from ENV keeps the process environment equal to it,
\* nil meaning absent; only the methods above, and a comparison by identity
\* that lets one name have two entries, let them differ.
EnvFollows ==
    [][ (environ.is /\ ~Id /\ Unique(Live, FALSE) /\ environ.vars = Mirror(Live)
           /\ last'.op \notin Unmirrored) =>
            environ'.vars = Mirror(Live') ]_vars

\* An iterator whose block leaves the hash alone runs it once for each entry,
\* in order, and ends with the result its name says, although the entries move
\* under a filter that deletes: s is the content at its start, t that at its
\* end, g what its blocks were given and returned.  (A filter deletes by key,
\* so among entries of one key, which only transform_keys! makes, it can
\* delete the wrong one.)  Some end at a truthy or a falsy value.
\* transform_keys! has room for MaxRekeyed keys: in a longer hash it runs the
\* block for that many entries, and the keys of the others stay.
Meant(op, out, s, g, t) ==
    LET some == \E i \in DOMAIN g : Truthy(g[i].ret)
    IN  /\ Pairs(g) = SubSeq(s, 1, Len(g))
        /\ Len(g) < Len(s) => \/ op \in {"find", "any?", "all?", "none?"}
                              \/ op = "transform_keys!" /\ Len(g) = MaxRekeyed
        /\ op = "find" => out = IF some THEN List(<<s[Len(g)]>>) ELSE Val(Nil)
        /\ op \in {"any?", "none?"} => out = Truth(some = (op = "any?"))
        /\ op = "all?" => out = Truth(\A i \in DOMAIN g : Truthy(g[i].ret))
        /\ op \in {"select", "reject"} => out.t = Pairs(Chosen(g, op = "select"))
        /\ op = "transform_values" => out.t = [i \in DOMAIN s |-> [s[i] EXCEPT !.val = g[i].ret]]
        /\ op \in Filters => t = Pairs(Chosen(g, op = "select!")) /\ (out = Self <=> t # s)
        /\ op = "transform_values!" => t = [i \in DOMAIN s |-> [s[i] EXCEPT !.val = g[i].ret]]
        /\ op = "transform_keys!" =>
               t = [i \in DOMAIN s |-> IF i <= MaxRekeyed THEN [s[i] EXCEPT !.key = g[i].ret] ELSE s[i]]
UndisturbedStep ==
    (Stepped /\ loop' = NoLoop /\ "seen" \in DOMAIN last' /\ last'.clean /\ Unique(last'.whole, Id)) =>
        Meant(last'.op, last'.out, last'.whole, last'.seen, Live')
UndisturbedResult == [][UndisturbedStep]_vars

\* A hash that a method builds from this one holds, for every key, what the
\* method's name says, in the mode of this one: the last of several merged
\* values, the entries of a slice or those outside it.
Derived(op, t, s, id) ==
    LET value(u, k) == IF Has(u, k, id) THEN {Get(u, k, id, Nil)} ELSE {}
        first(u, v, k) == IF Has(u, k, id) THEN value(u, k) ELSE value(v, k)
        asked(k, x, y) == Same(k, x, id) \/ Same(k, y, id)
    IN  /\ Unique(t, id)
        /\ op = "dup" => t = s
        /\ op = "compact" => \A k \in Keys : value(t, k) = value(s, k) \ {Nil}
        /\ op = "merge" =>
               \E o, p \in Others : \A k \in Keys :
                   value(t, k) = IF Has(p, k, id) THEN value(p, k) ELSE first(o, s, k)
        /\ op = "slice" =>
               \E x, y \in Keys : \A k \in Keys : value(t, k) = IF asked(k, x, y) THEN value(s, k) ELSE {}
        /\ op = "except" =>
               \E x, y \in Keys : \A k \in Keys : value(t, k) = IF asked(k, x, y) THEN {} ELSE value(s, k)
DerivedStep ==
    (Unique(Live, Id) /\ last'.out.k = "hash" /\ ~Stepped) =>
        last'.out.id = Id /\ Derived(last'.op, last'.out.t, Live, Id)
DerivedRight == [][DerivedStep]_vars

\* Whatever operations and blocks do, there is one entry for each key, the entries stay
\* in the order in which their keys came, and a frozen hash keeps them.
OneEntryInOrder == []TypeOK /\ KeysUnique /\ OrderKept /\ FrozenKeeps

\* What iterators and copying methods return is what their names say.
ResultsRight == UndisturbedResult /\ DerivedRight
=============================================================================
