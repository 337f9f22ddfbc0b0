------------------------ MODULE MCEncryptionNetwork -------------------------
(***************************************************************************)
(* Instances of EncryptionNetwork.                                         *)
(***************************************************************************)
EXTENDS EncryptionNetwork, TLC

CONSTANTS n1, n2

MCNetworks == {n1, n2}
\* Two owners, one name.
MCName == [n \in MCNetworks |-> "default"]

Asks(op, api, n, nonce) ==
    [op |-> op, api |-> api, net |-> n, who |-> "o", nonce |-> nonce, inv |-> nonce,
     flaws |-> {}, nbf |-> 0, exp |-> 2, authorised |-> TRUE]
With(job, flaws) == [job EXCEPT !.flaws = flaws]

c1 == Asks("create", "native", n1, 1)
c2 == Asks("create", "native", n1, 2)
c1again == Asks("create", "native", n1, 1)
c3 == Asks("create", "envelope", n2, 3)
k1 == Asks("revoke", "native", n1, 4)
k1again == Asks("revoke", "native", n1, 4)
k2 == Asks("revoke", "envelope", n2, 2)
d1 == Asks("decrypt", "native", n1, 5)
d1again == Asks("decrypt", "native", n1, 5)
d1other == With(Asks("decrypt", "native", n1, 5), {"body-hash"})
d2 == [Asks("decrypt", "native", n1, 4) EXCEPT !.inv = 6]
d3 == Asks("decrypt", "envelope", n2, 7)
d3late == [Asks("decrypt", "envelope", n2, 8) EXCEPT !.nbf = 1, !.exp = 4]
long == [Asks("decrypt", "native", n1, 9) EXCEPT !.exp = 9]
stray == With(Asks("decrypt", "native", n1, 10), {"stray"})
misaimed == With(Asks("decrypt", "native", n1, 11), {"target-node", "alg"})
foreign == With(Asks("decrypt", "envelope", n1, 12), {"audience", "owner"})
unowned == With(Asks("revoke", "envelope", n1, 13), {"owner", "signature"})
unproven == [Asks("create", "native", n1, 14) EXCEPT !.authorised = FALSE]
g1 == Asks("get", "native", n1, 0)
w1 == Asks("well-known", "native", n1, 0)
w2 == Asks("find-by-name", "native", n1, 0)

MCSlots == 1 .. 5

NoFault == [db |-> 0, crash |-> 0, tick |-> 0]
Day(jobs, faults) == [jobs |-> jobs, faults |-> faults @@ NoFault]

MCWorkloads == {
    \* two creations of one network, a repeat, and a client of either
    Day(<<c1, c2, g1, d1>>, [crash |-> 1]),
    Day(<<c1, c2, c1again, g1>>, [db |-> 1]),
    Day(<<c1, g1, d1, unproven>>, [db |-> 1, crash |-> 1]),
    \* one invocation sent twice, with the body it binds and with another
    Day(<<c1, d1, d1again, d1other>>, [db |-> 1]),
    \* revocation against creation and decryption
    Day(<<c1, c2, k1, d1>>, [crash |-> 1]),
    Day(<<c1, k1, k1again, d2, w1>>, [db |-> 1]),
    Day(<<c1, c3, k2, w2, d3>>, NoFault),
    \* windows of validity
    Day(<<c3, d3late, k2>>, [tick |-> 3, db |-> 1]),
    Day(<<c1, long, d1>>, [tick |-> 2]),
    \* what the checks refuse
    Day(<<c1, stray, misaimed, foreign, unowned>>, [db |-> 1])
}
=============================================================================
