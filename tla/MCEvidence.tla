------------------------------ MODULE MCEvidence ------------------------------
EXTENDS RequestEvidence

MCRoles == [ann |-> "none", bob |-> "none", eve |-> "reader"]

MCTexts == {[item |-> "db", f |-> "user", g |-> "password"],
            [item |-> "db2", f |-> "login", g |-> "secret"]}

AskFor(op, fields, role, single, directory, sink, child, change) ==
  [item |-> "i", op |-> op, fields |-> fields, role |-> role, single |-> single,
   directory |-> directory, sink |-> sink, child |-> child, change |-> change]

AskRead(f) == AskFor("read_stdout", {f}, "body", FALSE, {}, {}, FALSE, {})
ReadName == AskFor("read_stdout", {}, "descriptor", TRUE, {}, {}, FALSE, {})
AskWrite(f, to) == AskFor("write_private_file", {f}, "body", FALSE, {}, {to}, FALSE, {})
RunWith(f) == AskFor("child_stdin", {f}, "body", FALSE, {"cwd"}, {}, TRUE, {})
Template(fs) == AskFor("template", fs, "body", FALSE, {"cwd"}, {"out"}, TRUE, {})
Reseal == AskFor("recovery", {}, "body", TRUE, {}, {"new"}, FALSE, {})
Grant(p) == AskFor("administrative_rekey", {}, "body", TRUE, {}, {}, FALSE, {<<"grant", p>>})

Terms(approvals, eligible, ops) ==
  [approvals |-> approvals, eligible |-> eligible, witnesses |-> {"w1", "w2"}, quorum |-> 2,
   ops |-> ops]

EvidenceScene(rule, fields, texts, candidates, askers, asks, policies, requests,
      signatures, hours, lags, verdicts) ==
  [rule |-> rule, fields |-> fields, texts |-> texts, candidates |-> candidates,
   askers |-> askers, asks |-> asks, policies |-> policies, requests |-> requests,
   signatures |-> signatures, hours |-> hours, lags |-> lags,
   verdicts |-> verdicts]

OneText == {CHOOSE t \in MCTexts : TRUE}

MCScenes ==
  { \* read without asking anyone
    EvidenceScene(Terms(0, {}, {"read_stdout"}), {"f"}, OneText, {"ann", "bob"}, {"ann", "eve"},
          {AskRead("f"), AskRead("g"), ReadName}, 3, 1, 0, 2, {}, {}),
    \* two requests before one approver, and labels that change
    EvidenceScene(Terms(1, {"a1"}, {"read_stdout", "write_private_file"}), {"f", "g"}, OneText, {},
          {"eve"}, {AskRead("f"), AskWrite("g", "out")}, 2, 2, 2, 1,
          {0}, {"approve"}),
    EvidenceScene(Terms(1, {"a1"}, {"child_stdin", "template"}), {"f", "g"}, MCTexts, {},
          {"eve"}, {RunWith("f"), Template({"f", "g"})}, 3, 1, 2, 1,
          {0, 1}, {"approve"}),
    \* two approvers, and owners that come and go
    EvidenceScene(Terms(2, {"a1", "a2"}, {"recovery", "administrative_rekey"}), {}, OneText, {"bob"},
          {"ann"}, {Reseal, Grant("bob")}, 2, 1, 3, 2, {0}, {"approve", "deny"}),
    EvidenceScene(Terms(1, {"a1"}, {"read_stdout"}), {"f"}, MCTexts, {"ann", "bob"}, {},
          {AskRead("f"), ReadName}, 4, 0, 0, 2, {}, {}) }
===============================================================================
