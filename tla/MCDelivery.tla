------------------------------ MODULE MCDelivery ------------------------------
(***************************************************************************)
(* Small instances of FieldDelivery.  Two items the caller reads directly, *)
(* one that is somebody else's and one under witnesses; the second         *)
(* revision changes values, swaps the labels of two fields and takes one   *)
(* direct reader away.                                                     *)
(***************************************************************************)
EXTENDS FieldDelivery

MCField(name, concealed, text, value) ==
  [name |-> name, concealed |-> concealed, text |-> text, value |-> value]

MCItem(name, reader, fields) == [name |-> name, reader |-> reader, fields |-> fields]

MCLabel(item, field, text) == [item |-> item, field |-> field, text |-> text]

MCRule(operation, timeout, output, targets) ==
  [item |-> 4, operation |-> operation, timeout |-> timeout, output |-> output,
   targets |-> targets]

MCRules == {MCRule("ChildStdin", 2, 1, 1), MCRule("ChildEnvironment", 4, 2, 3),
            MCRule("TemplateInjection", 1, 9, 3), MCRule("WritePrivateFile", 1, 9, 1)}

\* The second field of the governed item is labelled with the first's name.
MCVault ==
  << [items |-> << MCItem("db", TRUE, <<MCField("user", FALSE, TRUE, "u1"),
                                        MCField("pass", TRUE, TRUE, "p1")>>),
                   MCItem("tls", TRUE, <<MCField("key", TRUE, FALSE, "k1")>>),
                   MCItem("own", FALSE, <<MCField("pass", TRUE, TRUE, "x1")>>),
                   MCItem("prod", FALSE, <<MCField("a", TRUE, TRUE, "a1"),
                                           MCField("b", FALSE, TRUE, "b1")>>) >>,
      labels |-> {MCLabel(4, 0, "live"), MCLabel(4, 1, "token"), MCLabel(4, 2, "a"),
                  MCLabel(1, 0, "twin"), MCLabel(2, 0, "twin"), MCLabel(4, 3, "gone")},
      rules |-> MCRules],
     [items |-> << MCItem("db", TRUE, <<MCField("user", FALSE, TRUE, "u2"),
                                        MCField("pass", TRUE, TRUE, "p2")>>),
                   MCItem("tls", FALSE, <<MCField("key", TRUE, FALSE, "k2")>>),
                   MCItem("own", FALSE, <<MCField("pass", TRUE, TRUE, "x2")>>),
                   MCItem("prod", FALSE, <<MCField("b", FALSE, TRUE, "b2"),
                                           MCField("a", TRUE, TRUE, "a2")>>) >>,
      labels |-> {MCLabel(4, 0, "live"), MCLabel(4, 2, "token"), MCLabel(4, 1, "a")},
      rules |-> MCRules \ {MCRule("ChildStdin", 2, 1, 1)}] >>

MCSearch == <<"local", "usr">>
MCPaths == {<<"local", "tool">>, <<"usr", "tool">>}

\* The tool is in the second directory, or a plain file hides it.
MCTrees ==
  {<<[p \in MCPaths |-> IF p[1] = "usr" THEN 1 ELSE other], {1}, [d \in {"work"} |-> 2]>> :
     other \in {0, 3}}

MCExecution(kind, direct, program, env, files, stdin, timeout, limit) ==
  [kind |-> kind, direct |-> direct, program |-> program, cwd |-> "work",
   env |-> env, files |-> files, stdin |-> stdin, timeout |-> timeout,
   limit |-> limit, template |-> <<>>, reference |-> <<"", "">>, byId |-> {},
   out |-> {}, reveal |-> FALSE, overwrite |-> FALSE]

MCOutput(kind, direct, template, reference, byId, out, reveal, overwrite) ==
  [kind |-> kind, direct |-> direct, program |-> <<"", "">>, cwd |-> "",
   env |-> <<>>, files |-> <<>>, stdin |-> {}, timeout |-> {}, limit |-> 0,
   template |-> template, reference |-> reference, byId |-> byId,
   out |-> out, reveal |-> reveal, overwrite |-> overwrite]

MCBare == <<"", "tool">>
MCAbsolute == <<"usr", "tool">>
MCUser == <<"db", "user">>
MCPass == <<"db", "pass">>
MCToken == <<"live", "token">>
MCPlain == <<"live", "a">>
MCBegin == <<"{{">>
MCEnd == <<"}}">>

MCDirectRuns ==
  { MCExecution("exec", TRUE, MCBare, <<<<"U", MCUser>>, <<"L", LiteralSource>>>>,
                <<<<"K", <<"tls", "key">>>>>>, {MCPass}, {}, 0),
    MCExecution("exec", TRUE, MCAbsolute, <<>>, <<>>, {}, {}, 0),
    MCExecution("run", TRUE, MCBare, <<<<"P", MCPass>>, <<"Q", MCUser>>>>,
                <<>>, {MCPass}, {}, 1),
    MCExecution("run", TRUE, MCAbsolute, <<<<"K", <<"tls", "key">>>>>>, <<>>, {}, {3}, 1),
    MCExecution("run", TRUE, MCAbsolute, <<<<"P", MCPass>>, <<"X", <<"own", "pass">>>>>>,
                <<>>, {}, {}, 1),
    MCExecution("run", TRUE, MCAbsolute, <<<<"P", <<"db", "none">>>>>>,
                <<<<"K", <<"tls", "key">>>>>>, {}, {}, 1),
    MCExecution("run", TRUE, MCAbsolute, <<<<"PATH", MCPass>>>>, <<>>, {}, {}, 1),
    MCExecution("exec", TRUE, MCAbsolute, <<<<"PATH", MCPass>>>>, <<>>, {}, {}, 0),
    MCExecution("exec", TRUE, MCAbsolute, <<<<"JURY_HOME", MCPass>>>>, <<>>, {}, {}, 0),
    MCExecution("run", TRUE, MCAbsolute, <<<<"P", MCPass>>>>, <<<<"P", MCUser>>>>, {}, {}, 1),
    MCExecution("run", TRUE, MCAbsolute, <<<<"P", MCPass>>>>, <<>>, {}, {0}, 1) }

MCGovernedRuns ==
  { MCExecution("exec", FALSE, MCBare, <<<<"T", MCToken>>>>, <<<<"A", MCPlain>>>>, {}, {}, 0),
    MCExecution("run", FALSE, MCAbsolute, <<>>, <<>>, {MCToken}, {2}, 1),
    MCExecution("run", FALSE, MCBare, <<<<"T", MCToken>>>>, <<>>, {}, {}, 2),
    MCExecution("run", FALSE, MCAbsolute, <<>>, <<>>, {MCPlain}, {3}, 1),
    MCExecution("run", FALSE, MCAbsolute, <<<<"T", MCToken>>>>, <<>>, {}, {2}, 3),
    MCExecution("run", FALSE, MCAbsolute, <<<<"T", MCToken>>>>, <<>>, {MCPlain}, {2}, 1),
    MCExecution("exec", FALSE, MCAbsolute, <<<<"L", LiteralSource>>>>, <<>>, {}, {}, 0),
    MCExecution("exec", FALSE, MCAbsolute, <<<<"T", <<"twin", "user">>>>>>, <<>>, {}, {}, 0) }

MCTemplate == <<<<"x">>, <<"y">>, <<"z">>, MCBegin, MCToken, MCEnd, <<"w">>,
                MCBegin, MCPlain, MCEnd>>

MCOutputs ==
  { MCOutput("inject", FALSE, MCTemplate, <<"", "">>, {}, {"file"}, FALSE, FALSE),
    MCOutput("inject", FALSE, <<<<"x">>, MCBegin, <<"live", "gone">>, MCEnd>>,
             <<"", "">>, {}, {}, TRUE, FALSE),
    MCOutput("inject", TRUE, <<MCBegin, MCUser, MCEnd, <<"x">>, MCBegin, MCPass, MCEnd>>,
             <<"", "">>, {}, {}, TRUE, FALSE),
    MCOutput("inject", TRUE, <<MCBegin, MCUser, MCEnd, <<"x">>, MCBegin, <<"tls", "key">>, MCEnd>>,
             <<"", "">>, {}, {"file"}, FALSE, TRUE),
    MCOutput("inject", TRUE, <<<<"1">>, <<"2">>, <<"3">>, <<"4">>, <<"5">>, <<"6">>,
                               MCBegin, MCUser, MCEnd>>, <<"", "">>, {}, {}, TRUE, FALSE),
    MCOutput("inject", TRUE, <<MCBegin, MCUser, <<"x">>, MCEnd>>, <<"", "">>, {}, {}, TRUE, FALSE),
    MCOutput("read", TRUE, <<>>, MCPass, {}, {"file"}, FALSE, FALSE),
    MCOutput("read", TRUE, <<>>, <<"own", "pass">>, {}, {}, TRUE, FALSE),
    MCOutput("read", TRUE, <<>>, MCPass, {}, {"file"}, TRUE, FALSE),
    MCOutput("read", FALSE, <<>>, MCPlain, {}, {"file"}, FALSE, TRUE),
    MCOutput("read", FALSE, <<>>, <<"", "">>, {<<4, 1>>}, {"file"}, FALSE, FALSE),
    MCOutput("read", FALSE, <<>>, MCToken, {}, {}, TRUE, FALSE) }

MCTasks == MCDirectRuns \union MCGovernedRuns \union MCOutputs
=============================================================================
