------------------------------ MODULE Builtins ------------------------------
(***************************************************************************)
(* The builtin functions (object/builtins.go).  A builtin is a Go function  *)
(* of the slice of its arguments.  It returns an object, nil, an ERROR      *)
(* object (a value, not a failure of the VM), or it panics; push, pop,      *)
(* pushleft, popleft and del change their argument in place.                *)
(*                                                                         *)
(* Each operator takes the arguments objs and the heap h, a record of the   *)
(* arrays and the hashes, and returns the value and the heap afterwards.    *)
(* No two Array objects ever share a backing array, so an array is the      *)
(* sequence of its elements.  The text puts writes is left out.             *)
(***************************************************************************)
EXTENDS Objects

Returns(v, h) == [value |-> v, heap |-> h]
SetArray(h, k, s) == [h EXCEPT !.arrays[k] = s]
IsArray(v) == v[1] = "ARRAY"

BuiltinLen(objs, h) ==
    Returns(
        IF Len(objs) # 1 THEN ErrorObj
        ELSE CASE IsArray(objs[1]) -> IntObj(Len(h.arrays[objs[1][2]]))
               [] objs[1][1] = "STRING" -> IntObj(Len(objs[1][3]))
               [] OTHER -> ErrorObj,
        h)

BuiltinPuts(objs, h) ==
    Returns(IF /\ Len(objs) = 1
               /\ objs[1][1] \in {"STRING", "INTEGER", "BOOLEAN", "ARRAY", "ERROR"}
            THEN Nil ELSE ErrorObj,
            h)

BuiltinPush(objs, h) ==
    IF Len(objs) < 2 \/ ~IsArray(objs[1]) THEN Returns(ErrorObj, h)
    ELSE LET k == objs[1][2]
         IN  Returns(objs[1],
                     SetArray(h, k, h.arrays[k] \o SubSeq(objs, 2, Len(objs))))

BuiltinPop(objs, h) ==
    IF Len(objs) # 1 \/ ~IsArray(objs[1]) THEN Returns(ErrorObj, h)
    ELSE LET k == objs[1][2]
             arr == h.arrays[k]
         IN  IF arr = <<>> THEN Returns(Panics("pop from an empty array"), h)
             ELSE Returns(arr[Len(arr)],
                          SetArray(h, k, SubSeq(arr, 1, Len(arr) - 1)))

BuiltinPushleft(objs, h) ==
    IF Len(objs) # 2 \/ ~IsArray(objs[1]) THEN Returns(ErrorObj, h)
    ELSE LET k == objs[1][2]
         IN  Returns(objs[1], SetArray(h, k, <<objs[2]>> \o h.arrays[k]))

BuiltinPopleft(objs, h) ==
    IF Len(objs) # 1 \/ ~IsArray(objs[1]) THEN Returns(ErrorObj, h)
    ELSE LET k == objs[1][2]
             arr == h.arrays[k]
         IN  IF arr = <<>> THEN Returns(Panics("popleft from an empty array"), h)
             ELSE Returns(arr[1], SetArray(h, k, SubSeq(arr, 2, Len(arr))))

DelArray(container, idx, h) ==
    LET arr == h.arrays[container]
    IN  IF idx[1] # "INTEGER" THEN Returns(ErrorObj, h)
        ELSE IF idx[2] < 0 \/ idx[2] >= Len(arr) THEN Returns(ErrorObj, h)
        ELSE Returns(Nil, SetArray(h, container,
                              SubSeq(arr, 1, idx[2])
                                  \o SubSeq(arr, idx[2] + 2, Len(arr))))

DelHash(container, key, h) ==
    CASE ~Hashable(key) -> Returns(ErrorObj, h)
      [] Hashable(key) /\ HashKey(key) # key -> Returns(HashKey(key), h)
      [] HashKey(key) = key /\ HashHas(h.hashes[container], key)
            -> Returns(Nil, [h EXCEPT !.hashes[container] = HashDel(@, key)])
      [] OTHER -> Returns(ErrorObj, h)

BuiltinDel(objs, h) ==
    IF Len(objs) # 2 THEN Returns(ErrorObj, h)
    ELSE CASE IsArray(objs[1]) -> DelArray(objs[1][2], objs[2], h)
           [] objs[1][1] = "HASH" -> DelHash(objs[1][2], objs[2], h)
           [] OTHER -> Returns(ErrorObj, h)

\* Builtin number i (counted from 0, as OpGetBuiltin does) applied to objs.
CallBuiltin(i, objs, h) ==
    CASE BuiltinNames[i + 1] = "len" -> BuiltinLen(objs, h)
      [] BuiltinNames[i + 1] = "puts" -> BuiltinPuts(objs, h)
      [] BuiltinNames[i + 1] = "push" -> BuiltinPush(objs, h)
      [] BuiltinNames[i + 1] = "pop" -> BuiltinPop(objs, h)
      [] BuiltinNames[i + 1] = "pushleft" -> BuiltinPushleft(objs, h)
      [] BuiltinNames[i + 1] = "popleft" -> BuiltinPopleft(objs, h)
      [] BuiltinNames[i + 1] = "del" -> BuiltinDel(objs, h)
=============================================================================
