------------------------------ MODULE MCSessions ------------------------------
(* Two tabs of one browser; the first can have two requests at once. *)
EXTENDS Sessions, TLC

CONSTANTS t1, t2, u1, r1, r2, r3

MCTabOf == (r1 :> t1) @@ (r2 :> t1) @@ (r3 :> t2)

=============================================================================
