---------------------------- MODULE MCSessionHost ----------------------------
(* A small instance of SessionHost. *)
EXTENDS SessionHost

KeysOf == [server |-> 2, delegated |-> 0, pty |-> 2, terminal |-> 0]
ShownOf == [server |-> 1, delegated |-> 2, pty |-> 2, terminal |-> 1]

\* Of the right size, longer than this build knows, shorter, and of an unknown kind.
SomeSignals == {[code |-> "end", size |-> 2], [code |-> "notify", size |-> 4],
                [code |-> "foreground", size |-> 1], [code |-> "unknown", size |-> 0]}

Tokens == {<<t>> : t \in Flags \cup DOMAIN ValueOf \cup {"path", "handle", "number", "pty", "--", "p"}}
Words(n) == UNION {[1 .. k -> {"a", Space, Backslash, Quote}] : k \in 0 .. n}
Server == <<<<"server">>, <<"handle">>>>
Signal == <<<<"signal">>, <<"handle">>>>

\* All short option lists, the ones every route needs, and clients with awkward words.
SomeArgLists ==
  UNION {[1 .. k -> Tokens] : k \in 0 .. 2}
    \cup {a \o b \o c : a \in {<<>>, Server, <<<<"handle">>>>}, b \in {<<>>, Signal},
                        c \in {<<>>} \cup {<<t>> : t \in Tokens}}
    \cup {<<<<"--">>, p, w>> : p \in {<<"p">>, <<"p", Space>>}, w \in Words(4)}
    \cup {<<<<"p">>, v, w>> : v, w \in Words(2)}
=============================================================================
