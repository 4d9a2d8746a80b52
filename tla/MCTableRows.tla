----------------------------- MODULE MCTableRows -----------------------------
EXTENDS TableRows, TLC

\* Two tenants with quotes on different days, so that figures of the wrong
\* tenant or the wrong day are the wrong figures.
MCBusy == {<<"a", 1>>, <<"b", 2>>}

\* Tabs, codes and requests are alike; so are a carrier and a client, as every
\* action that speaks of one has a twin that speaks of the other.
RowSymmetry ==
  Permutations(Tabs) \cup Permutations(Codes) \cup Permutations(Requests)
    \cup Permutations(Carriers \cup Clients)

\* Where both crossings happened neither property of the second factor says
\* anything.  Of the three rows any two may be there at once, and a request of
\* one tenant may fail.
Watched ==
  /\ ~(stale /\ crossed)
  /\ Cardinality({i \in Ids : owner[i] # NoId}) <= 2
  /\ Cardinality({t \in Tenants : recordFaults[t] > 0}) <= 1
=============================================================================
