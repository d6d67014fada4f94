--------------------------- MODULE MCDnsIntercept ---------------------------
\* Instances of DnsIntercept: two clients, the clean resolver and another server.
EXTENDS DnsIntercept

Remote   == [ip |-> "remote", port |-> 53]
OtherDns == [ip |-> "other", port |-> 53]
Client1  == [ip |-> "tunnel", port |-> 4001]
Client2  == [ip |-> "tunnel", port |-> 4002]

\* Two A/IN queries of two clients to two servers that share an id, and one that is not
\* A/IN with the same id.
SharedId ==
    {[client |-> Client1, server |-> Remote, id |-> 7, kind |-> "A"],
     [client |-> Client2, server |-> OtherDns, id |-> 7, kind |-> "A"],
     [client |-> Client1, server |-> Remote, id |-> 7, kind |-> "other"]}

\* The ordinary case: one client that asks the clean resolver with fresh ids.
FreshIds == {[client |-> Client1, server |-> Remote, id |-> n, kind |-> "A"] : n \in {7, 8}}
=============================================================================
