----------------------------- MODULE MCGateway -----------------------------
(* Gateway on small instances: two providers, one model, an access key and  *)
(* the master key.                                                          *)
EXTENDS Gateway, TLC

CONSTANTS p1, p2, k1, k2, m1, alice, std, secret

Plain(s, header) ==
    [token |-> FALSE, secret |-> s, p |-> None, m |-> None, uk |-> FALSE,
     header |-> header, model |-> m1, gemini |-> FALSE]

Token(s, p, uk) ==
    [token |-> TRUE, secret |-> s, p |-> p, m |-> None, uk |-> uk,
     header |-> None, model |-> m1, gemini |-> FALSE]

\* Plain keys with and without a forced provider, tokens with and without a
\* provider, with the caller's own key, without k, and with nothing usable.
MCCalls ==
    {Plain(secret, None), Plain(secret, p1), Plain(Master, p2), Token(secret, p2, FALSE),
     Token(secret, None, TRUE), Token(None, p2, TRUE), Token(None, p2, FALSE),
     [Plain(secret, p2) EXCEPT !.gemini = TRUE],
     [Token(Master, None, FALSE) EXCEPT !.m = m1, !.model = None, !.gemini = TRUE]}

Free == [p \in {p1, p2} |-> None]
Bind(p, k) == [Free EXCEPT ![p] = k]
Grant(allowed, policy, bindings) ==
    [account |-> alice, allowed |-> allowed, policy |-> policy, bindings |-> bindings]
Table(g) == [s \in {secret, Master} |-> IF s = secret THEN g ELSE None]

\* The record is absent, then allows one provider and binds its key, then is
\* under a route policy.
MCRecordTables ==
    {Table(None), Table(Grant({p2}, None, Bind(p2, k2))), Table(Grant({}, std, Free))}

Key(k) == [name |-> k, filled |-> TRUE]
KeyFile(name, disabled, spare) ==
    [access |-> [s \in {secret, Master} |->
        IF s = Master THEN None ELSE [name |-> name, disabled |-> disabled, bindings |-> Bind(p1, k1)]],
     keys |-> [p \in {p1, p2} |-> IF p = p1 THEN <<Key(k1), Key(k2)>> ELSE spare]]

\* keys.yaml with the access key and both keys of p2, without them, and with
\* an access key that has no name.
MCKeyFiles ==
    {KeyFile(alice, FALSE, <<Key(k1), Key(k2)>>),
     KeyFile(alice, TRUE, <<Key(k1), [name |-> k2, filled |-> FALSE]>>),
     KeyFile(None, FALSE, <<Key(k1)>>)}

Route(providers, strategy, owner) ==
    [providers |-> providers, strategy |-> strategy, owner |-> owner]

\* models.yaml with both providers in turn, with a priority, and with one.
MCModelFiles ==
    {[routes |-> [m \in {m1} |-> Route(<<p1, p2>>, "round_robin", None)], priority |-> <<p2>>],
     [routes |-> [m \in {m1} |-> Route(<<p1, p2>>, "round_robin", std)], priority |-> <<>>],
     [routes |-> [m \in {m1} |-> Route(<<p1>>, "round_robin", std)], priority |-> <<>>],
     [routes |-> [m \in {m1} |-> None], priority |-> <<>>]}

MCRegistries == {{p1, p2}, {p1}}
=============================================================================
