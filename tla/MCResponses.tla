---------------------------- MODULE MCResponses ----------------------------
(* A small instance of Responses: every fault of a request with few lists  *)
(* of objects, and every short list of objects in requests without fault.  *)
EXTENDS Responses

CONSTANTS o1, o2, bad

Object(o, n) == [oid |-> o, size |-> n]

Request(op, flags, body, objects, token) ==
  [op |-> op, acceptable |-> flags[1], typed |-> flags[2], fields |-> flags[3],
   body |-> body, objects |-> objects, token |-> token]

Lists(op) == IF op = "verify" THEN {<<Object(o1, 1)>>, <<Object(bad, 1)>>}
             ELSE {<<>>, <<Object(o1, 1), Object(o2, 0)>>, <<Object(o1, 1), Object(o1, 0)>>}

FaultyInputs ==
  UNION {{Request(op, <<a, t, f>>, b, l, k) :
            a \in BOOLEAN, t \in BOOLEAN, f \in BOOLEAN,
            b \in {"fine", "malformed", "too_large"}, l \in Lists(op),
            k \in {"none", "foreign", "ghu_"}} : op \in Operation}

\* Every list of up to MaxObjects, and one that is longer.
ObjectLists ==
  UNION {[1..n -> [oid : {o1, o2, bad}, size : -1..(MaxObjectSize + 1)]] : n \in 0..MaxObjects}
    \cup {[k \in 1..(MaxObjects + 1) |-> Object(o1, 1)]}

ObjectInputs ==
  {Request("upload", <<TRUE, TRUE, TRUE>>, "fine", l, "ghu_") : l \in ObjectLists}
    \cup {Request("verify", <<TRUE, TRUE, TRUE>>, "fine", <<o>>, "ghu_") :
            o \in [oid : {o1, bad}, size : -1..(MaxObjectSize + 1)]}

InputsDef == FaultyInputs \cup ObjectInputs
=============================================================================
