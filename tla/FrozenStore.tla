---------------------------- MODULE FrozenStore ----------------------------
(***************************************************************************)
(* What the freeze of the tag memory promises its users (spec 3 and 4.1),  *)
(* for the internal tags: a logical store that every accepted write       *)
(* changes at one tag, and the view the getters return.  While not frozen *)
(* the view is the store; while frozen the view stays put and the writes  *)
(* pile up in the store; thawing makes them all visible at once.          *)
(***************************************************************************)
CONSTANT Tags

VARIABLES store, view, frozen

Init == frozen = FALSE /\ view = store

\* A write to tag t: no other tag changes, and the view follows the store
\* unless frozen.
Write(t) ==
    /\ \A u \in Tags \ {t} : store'[u] = store[u]
    /\ view' = IF frozen THEN view ELSE store'
    /\ UNCHANGED frozen

Freeze ==
    /\ ~frozen /\ frozen'
    /\ UNCHANGED <<store, view>>

Thaw ==
    /\ frozen /\ ~frozen'
    /\ view' = store
    /\ UNCHANGED store

Next == (\E t \in Tags : Write(t)) \/ Freeze \/ Thaw

Spec == Init /\ [][Next]_<<store, view, frozen>>

=============================================================================
