------------------------------ MODULE MCChain ------------------------------
(***************************************************************************)
(* One user, one pick, nothing failing and every call in order: a          *)
(* subscription of two servers, one of which is a hop of the proxy chain.  *)
(***************************************************************************)
EXTENDS ServerList

OnePick ==
    {[what \in {"flight", "inOrder", "fail", "tray", "pick", "edit", "chain", "list", "refresh", "tick"} |->
        IF what \in {"flight", "inOrder", "pick"} THEN 1 ELSE 0]}

TwoServers ==
    {<<[id |-> "s1", domain |-> "a.org", name |-> "one"], [id |-> "s2", domain |-> "a.org", name |-> "two"]>>}

HopChosen ==
    {[graph |-> EmptyGraph("main"), active |-> "main", geo |-> 0, hwid |-> 0, other |-> 0, schedule |-> 0,
      setups |-> <<[id |-> "main", graph |-> EmptyGraph("main")]>>, last |-> NoLast,
      chain |-> <<"s1">>, chain_on |-> 1, trusted |-> <<>>, choice |-> [answered |-> 0, hours |-> 0, rule |-> FALSE], sync |-> 0, auto_connect |-> 0, auto_update |-> 0]}

SameServers == [d \in {"a.org"} |-> TwoServers]
SomeMinted == [s1 |-> "n1", s2 |-> "n2"]
OneDomain == <<"local", "a.org">>

=============================================================================
