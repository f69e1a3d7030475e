------------------------------- MODULE MCSinks ------------------------------
(* Two sinks of each kind behind the transforms of the demo and a filter.  *)
EXTENDS Sinks

CONSTANTS r1, r2, l1, l2

\* Two databases with a table of one name, in one of them renamed.
users  == [NewSource("postgresql", "demodb", "public", "users") EXCEPT !.lsn = 7]
others == NewSource("mysql", "shop", Null, "cdc_users")

MCChain == << [kind |-> "log"],
              [kind |-> "filter", ops |-> Dml \cup {"read"}],
              [kind |-> "rename", tables |-> <<<<"users", "cdc_users">>>>,
               dbs |-> <<<<"demodb", "cdc">>>>] >>

MCBatches == { <<CreateEvent("a", users, 1)>>,
               <<UpdateEvent("a", "b", others, 2), DeleteEvent("b", others, Null)>>,
               <<EventOf("truncate", Null, Null, users, 3)>> }

\* Sinks of a kind are interchangeable: sound, there is no liveness here.
SinksSymmetry == Permutations({r1, r2}) \cup Permutations({l1, l2})
=============================================================================
