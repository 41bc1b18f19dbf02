----------------------------- MODULE MCParsers ------------------------------
EXTENDS Parsers

\* Every field right, and each field wrong in turn; names, passwords and
\* domain names of 0, 1 and 2 bytes; a last message only to be copied.
Negotiations == {<<4>>, <<5, 0>>, <<5, 1, 2>>, <<5, 2, 2, 0>>, <<5, 2, 0, 2>>}
Authentications == {<<5, 1>>, <<1, 0, 1, 7>>, <<1, 2, 8, 9, 2, 7, 6>>, <<1, 1, 8, 0>>}
Requests == {<<4, 1>>, <<5, 2>>, <<5, 1, 1>>, <<5, 1, 0, 2>>, <<5, 1, 0, 1, 8, 9, 1, 2>>,
             <<5, 1, 0, 4, 7, 8, 9, 3, 4>>, <<5, 1, 0, 3, 2, 8, 9, 1, 2>>, <<5, 1, 0, 3, 0>>}
Data == {[i \in 1 .. 19 |-> i % 16]}

MCMessages == <<Negotiations, Authentications, Requests, Data>>
=============================================================================
