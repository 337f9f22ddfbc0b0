--------------------------- MODULE MCShareSession ---------------------------
(***************************************************************************)
(* Instances of ShareSession.                                              *)
(***************************************************************************)
EXTENDS ShareSession

ShareTable == [sender |-> "sam", recipient |-> "ann@x", source |-> "doc", action |-> "get", until |-> 8]

Invite(node, jti, sender) ==
    [kind |-> "invite", node |-> node, jti |-> jti, sender |-> sender, recipient |-> "ann@x",
     source |-> "doc", audience |-> "node", after |-> {}]
Challenge(node, source, audience) ==
    [kind |-> "challenge", node |-> node, source |-> source, audience |-> audience, after |-> {}]
Credential(subject, mail) == [subject |-> subject, mail |-> mail, nb |-> 0, exp |-> 8]
Binding(holder, challenge) == [holder |-> holder, challenge |-> challenge, issued |-> 0, exp |-> 6]
Session(node, holder, challenge, jti, bind, credential, binding) ==
    [kind |-> "session", node |-> node, holder |-> holder, reader |-> holder, challenge |-> challenge,
     jti |-> jti, bind |-> bind, credential |-> credential, binding |-> binding, source |-> "doc",
     audience |-> "node", enforcer |-> "node-key",
     issued |-> 1, until |-> 3, after |-> {challenge}]
Read(node, holder, session, jti, issued) ==
    [kind |-> "read", node |-> node, holder |-> holder, session |-> session, jti |-> jti,
     source |-> "doc", audience |-> "node", issued |-> issued, until |-> issued + 2, after |-> {session}]
SetStatusOf(node, cid, seq, revoke) ==
    [kind |-> "status", node |-> node, cid |-> cid, seq |-> seq, revoke |-> revoke,
     after |-> {cid} \ Authorities]
Descend(node, parent, caps, exp) ==
    [kind |-> "descend", node |-> node, parent |-> parent, nb |-> 2, exp |-> exp, caps |-> caps, depth |-> 0,
     after |-> {parent}]
Invoke(node, cid) == [kind |-> "invoke", node |-> node, cid |-> cid, after |-> {cid}]

Own(node, challenge, jti, bind) ==
    Session(node, "ann", challenge, jti, bind, Credential("ann", "ann@x"), Binding("ann", challenge))

JobTable ==
    [i1 |-> Invite("n1", "j", "sam"), i2 |-> Invite("n2", "j", "sam"), i3 |-> Invite("n2", "k", "bob"),
     c1 |-> Challenge("n1", "doc", "node"), c2 |-> Challenge("n2", "doc", "node"),
     c3 |-> Challenge("n2", "doc", "node"), c4 |-> Challenge("n1", "other", "node"),
     c5 |-> Challenge("n1", "doc", "elsewhere"),
     s1 |-> Own("n1", "c1", "p1", "b1"), s2 |-> Own("n2", "c1", "p2", "b2"),
     s3 |-> Session("n2", "bob", "c1", "p3", "b3", Credential("bob", "bob@x"), Binding("bob", "c1")),
     s4 |-> Session("n2", "bob", "c1", "p4", "b4", Credential("ann", "ann@x"), Binding("bob", "c1")),
     s5 |-> Own("n2", "c2", "p1", "b5"),
     s6 |-> [Own("n2", "c1", "p6", "b6") EXCEPT !.enforcer = "old-key"],
     r1 |-> Read("n1", "ann", "s1", "q1", 1), r2 |-> Read("n1", "ann", "s1", "q1", 1),
     r3 |-> Read("n2", "bob", "s1", "q2", 1),
     stop |-> SetStatusOf("n2", "enforcement", 2, TRUE),
     end |-> SetStatusOf("n2", "s1", 1, TRUE),
     end1 |-> SetStatusOf("n1", "s1", 1, TRUE),
     d1 |-> Descend("n1", "s1", {"get"}, 4), d2 |-> Descend("n1", "s1", {"get"}, 12),
     v1 |-> Invoke("n2", "s1"), v2 |-> Invoke("n2", "d1")]

MCRequests == DOMAIN JobTable
MCNodes == {"n1", "n2"}

AuthorityTable ==
    [policy |-> [nb |-> 0, exp |-> 10, caps |-> {"get", "list"}, depth |-> 0, ttl |-> 6,
                 issuer |-> "olga", mode |-> "attenuable"],
     enforcement |-> [nb |-> 0, exp |-> 8, caps |-> {"get", "list"}, depth |-> 1, ttl |-> 6,
                      issuer |-> "olga", enforcer |-> "node-key"]]

TrustTable == [origin |-> "node.x", audience |-> "node", key |-> "k1"]

Enrolled(audience, version, enabled) ==
    [origin |-> "node.x", audience |-> audience, kid |-> "node", key |-> "k1", version |-> version,
     enabled |-> enabled]
Proven(version, enforcer) ==
    [origin |-> "node.x", audience |-> "node", key |-> "k1", version |-> version, enforcer |-> enforcer]
Sound(policy, attested) ==
    [policy |-> policy, enforcement |-> Status(1, 0, 6, Null), attested |-> attested,
     sender |-> "sam", signed |-> "sam", policySigned |-> "sam",
     mapping |-> [policy |-> "policy", enforcement |-> "enforcement"],
     enrollment |-> Enrolled("node", 1, TRUE), attestation |-> Proven(1, "node-key")]
First == Sound(Status(1, 0, 6, Null), 8)

\* The second version has a later status of the policy, in the third the policy
\* is revoked.  The others are mixed up: two senders, two shares, an enrollment
\* that is withdrawn or replaced, another enforcer, another deployment.
MaterialTable ==
    <<First, Sound(Status(2, 1, 7, Null), 2), Sound(Status(3, 1, 7, 1), 8),
      [First EXCEPT !.policySigned = "bob"],
      [First EXCEPT !.mapping.policy = "enforcement"],
      [First EXCEPT !.enrollment = Enrolled("node", 1, FALSE)],
      [First EXCEPT !.enrollment = Enrolled("node", 2, TRUE)],
      [First EXCEPT !.attestation = Proven(1, "old-key")],
      [First EXCEPT !.enrollment.key = "k2", !.attestation.key = "k2"]>>

MCRank ==
    [policy |-> 5, enforcement |-> 6, c1 |-> 1, c2 |-> 2, s1 |-> 3, s2 |-> 4, r1 |-> 7, r2 |-> 8,
     stop |-> 9, end |-> 10, d1 |-> 11, v1 |-> 12, v2 |-> 13, i1 |-> 14, i2 |-> 15, i3 |-> 16,
     s3 |-> 17, s4 |-> 18, r3 |-> 19, end1 |-> 20, c3 |-> 21, s5 |-> 22, d2 |-> 23,
     c4 |-> 24, c5 |-> 25, s6 |-> 26]

Work(engine, requests, v1, v2, stops, time) ==
    [engine |-> engine, requests |-> requests, material |-> [n1 |-> v1, n2 |-> v2],
     restarts |-> stops, time |-> time]

\* In turn: the quota; another sender, source or node; one jti for two sessions; one jti for two
\* invitations; one challenge for two sessions, with a revocation of the
\* enforcement; other holders; locks taken in two orders; one jti for two reads;
\* a chain that is revoked while it is walked; one connection; a restart.
WorkloadsTable ==
    {Work("postgres", {"c1", "c2", "c3"}, 1, 2, 0, 1),
     Work("postgres", {"i3", "c4", "c5"}, 1, 1, 0, 0),
     Work("postgres", {"c1", "c2", "s1", "s5"}, 1, 1, 0, 1),
     Work("postgres", {"i1", "i2"}, 1, 1, 0, 3),
     Work("postgres", {"c1", "s1", "s2", "stop"}, 1, 2, 0, 2),
     Work("postgres", {"c1", "s1", "s3", "s4", "s6", "r3"}, 1, 1, 0, 1),
     Work("postgres", {"c1", "s1", "r1", "d1", "end"}, 1, 1, 0, 2),
     Work("postgres", {"c1", "s1", "r1", "r2"}, 1, 1, 0, 3),
     Work("postgres", {"c1", "s1", "d1", "v2", "end"}, 1, 1, 0, 2),
     Work("sqlite", {"c1", "s1", "d1", "d2", "end1"}, 1, 1, 0, 2),
     Work("postgres", {"c1", "s1", "v1"}, 1, 2, 1, 2)}

\* TLC evaluates a definition that replaces a constant at every use; these are
\* evaluated once.
MCWorkloads == WorkloadsTable
MCJob == JobTable
MCAuthority == AuthorityTable
MCMaterial == MaterialTable
MCShare == ShareTable
MCTrust == TrustTable
=============================================================================
