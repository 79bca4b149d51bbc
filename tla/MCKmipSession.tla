---------------------------- MODULE MCKmipSession ----------------------------
(* One connection for TLC: clients with a good certificate, with one for servers
   and with one of two names; no plugin, plugins of every kind, two in a row. *)
EXTENDS KmipSession

MCCertificates == {[usage |-> "clientAuth", names |-> 1],
                   [usage |-> "clientAuth", names |-> 2],
                   [usage |-> "serverAuth", names |-> 1]}

On == [slugs |-> TRUE, enabled |-> TRUE]
Off == [slugs |-> TRUE, enabled |-> FALSE]
Foreign == [slugs |-> FALSE, enabled |-> TRUE]

MCChains == {<< >>, <<On>>, <<Off, Foreign>>, <<On, Off, On>>}
=============================================================================
