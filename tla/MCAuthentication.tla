-------------------------- MODULE MCAuthentication --------------------------
(***************************************************************************)
(* Instances of Authentication for TLC.  The pool of two connections is    *)
(* the smallest one in which a failed login can record its event.          *)
(***************************************************************************)
EXTENDS Authentication

CONSTANTS t1, t2, b1, b2

\* Both tabs in the browser that has a session, or the second one elsewhere.
Together == [t \in Tabs |-> b1]
Apart == [t \in Tabs |-> IF t = t1 THEN b1 ELSE b2]
TogetherOrApart == {Together, Apart}
=============================================================================
