------------------------------ MODULE OrderLife ------------------------------
(***************************************************************************)
(* What the paper engine promises about an order, without books, prices,   *)
(* latency or positions: an order arrives once, works for a while, trades  *)
(* and ends once, and nothing reaches it after its end.                    *)
(* PaperEngine implements this specification (EngineImplementsOrderLife).  *)
(* Source: backend/app/services/paper_engine/engine.py and the states of   *)
(* models.py:42-49, seen from a client that lists its orders.              *)
(***************************************************************************)
EXTENDS Naturals

CONSTANT Ids  \* the names an order may get

VARIABLES working,  \* what each working order has traded and has left, by id
          ended     \* how each other order ended, and what it had traded

lifeVars == <<working, ended>>

Known == DOMAIN working \union DOMAIN ended
Progress == [traded : Nat, left : Nat \ {0}]
Fate(how, traded) == [how |-> how, traded |-> traded]

\* New orders arrive, each of its own size, some of them refused; the working
\* orders in gone make room for them.
Arrive(new, refused, gone) ==
  /\ new \intersect Known = {} /\ refused \subseteq new /\ gone \subseteq DOMAIN working
  /\ working' \in [(DOMAIN working \ gone) \union (new \ refused) -> Progress]
  /\ \A i \in DOMAIN working \ gone : working'[i] = working[i]
  /\ \A i \in new \ refused : working'[i].traded = 0
  /\ ended' = [i \in DOMAIN ended \union gone \union refused |->
                 CASE i \in refused -> Fate("rejected", 0)
                   [] i \in gone -> Fate("cancelled", working[i].traded)
                   [] OTHER -> ended[i]]

\* An order trades a part of what it has left and goes on working.
Trade(i, qty) ==
  /\ working' = [working EXCEPT ![i] = [traded |-> @.traded + qty, left |-> @.left - qty]]
  /\ UNCHANGED ended

\* An order ends: filled by all that it has left, or turned away without a trade.
End(i, how) ==
  /\ how = "rejected" => working[i].traded = 0
  /\ working' = [j \in DOMAIN working \ {i} |-> working[j]]
  /\ ended' = [j \in DOMAIN ended \union {i} |->
                 IF j = i
                 THEN Fate(how, working[i].traded + IF how = "filled" THEN working[i].left ELSE 0)
                 ELSE ended[j]]

LifeInit == working = << >> /\ ended = << >>

LifeNext ==
  \/ \E new, gone \in SUBSET Ids : \E refused \in SUBSET new : Arrive(new, refused, gone)
  \/ \E i \in DOMAIN working :
       \/ \E qty \in 1 .. working[i].left - 1 : Trade(i, qty)
       \/ \E how \in {"filled", "cancelled", "rejected"} : End(i, how)

LifeSpec == LifeInit /\ [][LifeNext]_lifeVars
=============================================================================
