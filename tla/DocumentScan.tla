----------------------------- MODULE DocumentScan -----------------------------
(***************************************************************************)
(* What dfFindFirst and MetaTags::extract promise when one is called after *)
(* the other: a scan for the first node that is wanted, which shows no     *)
(* node once it has found one, and then a scan of what is below that node, *)
(* from which a name keeps the first value.  A scan shows the members of a *)
(* set in increasing order; there is no tree, no recursion and no filter.  *)
(***************************************************************************)
EXTENDS Naturals

CONSTANT Null        \* "no node"

VARIABLES page,      \* open: what the search may show; wanted: what it looks
                     \* for; below: what is below each node, itself included;
                     \* gives: the values that each node gives to names
          phase,     \* "find", "meta", "done", or "none" if nothing is scanned
          ahead,     \* what the scan has still to show
          found,
          values     \* [name -> value]

vars == <<page, phase, ahead, found, values>>

Init == /\ phase \in {"none", "find"}
        /\ ahead = IF phase = "find" THEN page.open ELSE {}
        /\ found = Null /\ values = <<>>

Comes(n) == n \in ahead /\ \A m \in ahead : n <= m

Pass(n) == /\ phase = "find" /\ Comes(n) /\ n \notin page.wanted
           /\ ahead' = ahead \ {n}
           /\ UNCHANGED <<page, phase, found, values>>

Find(n) == /\ phase = "find" /\ Comes(n) /\ n \in page.wanted
           /\ found' = n
           /\ ahead' = {}
           /\ UNCHANGED <<page, phase, values>>

StartReading == /\ phase = "find" /\ ahead = {}
                /\ phase' = "meta"
                /\ ahead' = IF found = Null THEN {} ELSE page.below[found]
                /\ UNCHANGED <<page, found, values>>

Read(n) == /\ phase = "meta" /\ Comes(n)
           /\ values' = [name \in DOMAIN values \cup DOMAIN page.gives[n] |->
                           IF name \in DOMAIN values THEN values[name]
                                                     ELSE page.gives[n][name]]
           /\ ahead' = ahead \ {n}
           /\ UNCHANGED <<page, phase, found>>

Stop == /\ phase = "meta" /\ ahead = {}
        /\ phase' = "done"
        /\ UNCHANGED <<page, ahead, found, values>>

Next == StartReading \/ Stop \/ \E n \in ahead : Pass(n) \/ Find(n) \/ Read(n)

Spec == Init /\ [][Next]_vars

=============================================================================
