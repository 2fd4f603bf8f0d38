------------------------------ MODULE MapSpec ------------------------------
(***************************************************************************)
(* What the public API of TreeMap promises (src/collections/map.rs): an    *)
(* ordered dictionary whose keys are never prefixes of one another.  The   *)
(* dictionary is a partial function from keys to values; `ret' is the      *)
(* answer of the last call, with the call it answers, until the caller has *)
(* taken it.                                                               *)
(***************************************************************************)
EXTENDS ByteStrings, FiniteSets

CONSTANTS
  Keys,    (* the byte strings the caller uses as keys  *)
  Values,  (* the values it stores                      *)
  None     (* Option::None, and the absence of an answer *)

VARIABLES map, ret

mapVars == <<map, ret>>

(* A call together with its arguments and its answer. *)
Answer(call, key, value, out) ==
  [call |-> call, key |-> key, value |-> value, out |-> out]

(* Options and results the API answers with. *)
Some(v) == <<"Some", v>>
Ok(old) == <<"Ok", old>>
InsertPrefixError == <<"InsertPrefixError">>

EmptyMap == [k \in {} |-> None]

FirstKey(m) == CHOOSE k \in DOMAIN m : \A j \in DOMAIN m \ {k} : LexLess(k, j)
LastKey(m)  == CHOOSE k \in DOMAIN m : \A j \in DOMAIN m \ {k} : LexLess(j, k)

Put(m, k, v)  == [j \in DOMAIN m \cup {k} |-> IF j = k THEN v ELSE m[j]]
Without(m, k) == [j \in DOMAIN m \ {k} |-> m[j]]

(* The key conflicts with one that is present: neither may be a prefix of  *)
(* the other unless they are equal.                                        *)
Conflicts(m, k) == \E j \in DOMAIN m : j # k /\ PrefixRelated(j, k)
-----------------------------------------------------------------------------
Init == map = EmptyMap /\ ret = None

TryInsert(k, v) ==
  /\ ret = None
  /\ IF Conflicts(map, k)
     THEN /\ ret' = Answer("try_insert", k, v, InsertPrefixError)
          /\ map' = map
     ELSE /\ ret' = Answer("try_insert", k, v,
                           Ok(IF k \in DOMAIN map THEN Some(map[k]) ELSE None))
          /\ map' = Put(map, k, v)

RemoveEntry(k) ==
  /\ ret = None
  /\ ret' = Answer("remove_entry", k, None,
                   IF k \in DOMAIN map THEN Some(<<k, map[k]>>) ELSE None)
  /\ map' = Without(map, k)

Get(k) ==
  /\ ret = None
  /\ ret' = Answer("get", k, None, IF k \in DOMAIN map THEN Some(map[k]) ELSE None)
  /\ map' = map

(* get_mut, and the caller writes v through the reference it gets. *)
GetMut(k, v) ==
  /\ ret = None
  /\ ret' = Answer("get_mut", k, v, IF k \in DOMAIN map THEN Some(map[k]) ELSE None)
  /\ map' = IF k \in DOMAIN map THEN [map EXCEPT ![k] = v] ELSE map

(* first_key_value / last_key_value and pop_first / pop_last. *)
End(call, k) ==
  /\ ret = None
  /\ IF DOMAIN map = {}
     THEN /\ ret' = Answer(call, << >>, None, None)
          /\ map' = map
     ELSE /\ ret' = Answer(call, << >>, None, Some(<<k, map[k]>>))
          /\ map' = IF call \in {"pop_first", "pop_last"} THEN Without(map, k) ELSE map

AtFirst(call) == call \in {"pop_first", "first_key_value"} /\ End(call, FirstKey(map))
AtLast(call)  == call \in {"pop_last", "last_key_value"} /\ End(call, LastKey(map))

Clear ==
  /\ ret = None
  /\ ret' = Answer("clear", << >>, None, None)
  /\ map' = EmptyMap

Return == ret # None /\ ret' = None /\ map' = map

Next ==
  \/ \E k \in Keys, v \in Values : TryInsert(k, v) \/ GetMut(k, v)
  \/ \E k \in Keys : RemoveEntry(k) \/ Get(k)
  \/ AtFirst("pop_first") \/ AtFirst("first_key_value")
  \/ AtLast("pop_last") \/ AtLast("last_key_value")
  \/ Clear
  \/ Return

Spec == Init /\ [][Next]_mapVars
-----------------------------------------------------------------------------
(* No key of the map is a proper prefix of another one: the condition that *)
(* lets a leaf be found by its bytes alone.                                *)
KeysArePrefixFree == PrefixFree(DOMAIN map)
=============================================================================
