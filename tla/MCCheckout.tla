----------------------------- MODULE MCCheckout -----------------------------
(***************************************************************************)
(* Instances of Checkout for TLC: a cart with a line for each of two       *)
(* variants, a cart of another customer with one line, and a cart that has *)
(* still to be opened.                                                     *)
(***************************************************************************)
EXTENDS Checkout, TLC

CONSTANTS v, w, c1, c2, c3, u1, u2, k1, k2, b1, e1, e2, p1, p2

Seeds == [l \in Levels |-> 2]
Owners == [c \in Carts |-> CASE c = c1 -> u1 [] c = c2 -> u2 [] OTHER -> None]
Line(id) == [id |-> id, quantity |-> 1]
SomeLines == [c \in Carts |-> [l \in Levels |->
                CASE c = c1 /\ l = v -> Line(1)
                  [] c = c1 /\ l = w -> Line(2)
                  [] c = c2 /\ l = w -> Line(3)
                  [] OTHER -> NoLine]]

By(u, c, kind) == [NoRequest EXCEPT !.kind = kind, !.customer = u, !.cart = c]
Add(u, c, l, q) == [By(u, c, "add") EXCEPT !.variant = l, !.quantity = q]
Change(u, c, q) == [By(u, c, "change") EXCEPT !.line = 1, !.quantity = q]
Remove(u, c) == [By(u, c, "remove") EXCEPT !.line = 1]
Claim(u, c, to) == [By(u, c, "claim") EXCEPT !.newCustomer = to]

Edits ==
    {Add(u1, c1, v, 1), [Add(u1, c1, v, 1) EXCEPT !.expected = 3], Change(u1, c1, 2),
     Remove(u1, c1), Claim(u1, c1, u2)}

\* The cart of u1 under two keys, by u2 once he has claimed it, and the cart of
\* u2 under a key of u1's.
Place(u, c, k) == [cart |-> c, customer |-> u, key |-> k, body |-> b1]
Places == {Place(u1, c1, k1), Place(u1, c1, k2), Place(u2, c1, k1), Place(u2, c2, k1)}

Symmetric == Permutations(Editors) \cup Permutations(Placers)
=============================================================================
