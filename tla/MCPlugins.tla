------------------------------ MODULE MCPlugins ------------------------------
(* Small instances of the plugins. *)
EXTENDS Plugins

CONSTANTS c1, c2

MCConns == {c1, c2}

\* A request that comes in up to four pieces beside a client that says nothing; a line
\* that is too long beside a command, which the server does not accept; credentials that
\* are replaced by wrong ones beside a bad parameter.
MCSessions ==
    {c1 :> <<"stream", LF, "auth", "x", LF, CR, LF>> @@ c2 :> <<>>,
     c1 :> <<"x", "x", "x", LF>> @@ c2 :> <<"command", LF, "auth", LF, LF>>,
     c1 :> <<"file", LF, "auth", "x", LF, "badauth", "x", LF, LF>> @@ c2 :> <<"badcommand", LF>>}

MCRings ==
    {[size |-> 2, exceed |-> 0], [size |-> 1, exceed |-> 2], [size |-> 0, exceed |-> 1],
     [size |-> -1, exceed |-> 0]}

MCOptions ==
    {[rm |-> FALSE, filename |-> AnyName], [rm |-> TRUE, filename |-> AnyName],
     [rm |-> FALSE, filename |-> "a"]}
==============================================================================
