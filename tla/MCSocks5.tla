------------------------------ MODULE MCSocks5 ------------------------------
(* Bounds for Socks5: what the clients send.                               *)
EXTENDS Socks5

\* Every way through the handshake, and data after it.
AllScripts ==
  {<<n>> : n \in {"neg_none", "neg_bad"}}
    \cup {<<"neg", a, r, "data">> : a \in {"auth", "auth_no", "auth_bad"},
                                    r \in {"req_ip", "req_dn", "req_bad"}}
=============================================================================
