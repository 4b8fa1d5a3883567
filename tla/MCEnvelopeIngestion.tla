------------------------ MODULE MCEnvelopeIngestion ------------------------
(* A device's honest chain of three operations and the copies that contest it. *)
EXTENDS EnvelopeIngestion

CONSTANTS d1, d2, a1, a2, s1, s2, i1, i2, i3, i4, h1, h2, h3, h4

Env(i, d, a, s, k, q, ss, p, h, g) ==
  [id |-> i, device |-> d, actor |-> a, session |-> s, kind |-> k, seq |-> q,
   sessionSeq |-> ss, prev |-> p, hash |-> h, genuine |-> g]

Open == "cash-session-open"
Sale == "sale-confirm"

MCEnvelope ==
  { Env(i1, d1, a1, s1, Open, 1, 1, Genesis, h1, TRUE),
    Env(i2, d1, a1, s1, Sale, 2, 2, h1, h2, TRUE),
    Env(i3, d1, a2, s2, Open, 3, 1, h2, h3, TRUE),
    Env(i4, d1, a2, s2, Sale, 4, 2, h3, h4, TRUE),
    Env(i2, d1, a2, s1, Sale, 2, 2, h1, h4, TRUE),      \* same id, other content
    Env(i4, d1, a1, s1, Sale, 2, 2, h1, h4, TRUE),      \* a fork at sequence 2
    Env(i3, d1, a1, s1, Sale, 3, 3, h4, h3, FALSE),     \* sealed outside its grant
    Env(i3, d1, a1, s1, Sale, 3, 3, h4, h3, TRUE),      \* continues the fork
    Env(i1, d2, a2, s2, Open, 1, 1, Genesis, h4, TRUE), \* another device, same id
    Env(i4, d2, a2, s1, Open, 1, 1, Genesis, h3, TRUE), \* another device, same session
    Env(i2, d2, a2, s2, Sale, 2, 3, h4, h2, TRUE) }     \* a hole in its session

Knows(d, t, s, h) == [device |-> d, target |-> t, seq |-> s, head |-> h]

MCCheckpoint ==
  { Knows(d1, "DEVICE", 0, Genesis), Knows(d1, "DEVICE", 2, h2), Knows(d1, "DEVICE", 4, h4),
    Knows(d1, a1, 1, h1), Knows(d1, a1, 2, h4), Knows(d1, a2, 3, h3),
    Knows(d2, a2, 0, h4), Knows(d2, a2, 1, h4) }
=============================================================================
