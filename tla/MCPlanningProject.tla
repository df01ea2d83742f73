------------------------- MODULE MCPlanningProject -------------------------
EXTENDS PlanningQueries

MCNames == {"api", "ui"}

On(int) == IF int = 0 THEN {} ELSE {Ref(<<int, 0>>, FALSE)}

Phase(int, name, box) == Section(<<int, 0>>, FALSE, name, box, On(int - 1))

Worked(int, name, plans, summaries) ==
    [Dir(<<int, 0>>, name) EXCEPT !.plans = plans, !.summaries = summaries]

Body == [compound |-> FALSE, phase |-> <<2, 0>>, padded |-> TRUE, plan |-> 1,
         total |-> 1, status |-> "Ready to execute", of |-> Unknown,
         completed |-> 1, phases |-> 3, progress |-> 33]

(* One phase executed, one planned, one only in the ROADMAP.  The names of *)
(* the second and third are equal.                                         *)
Midway == [roadmap |-> <<Phase(1, "api", "checked"), Phase(2, "ui", "open"),
                         Phase(3, "ui", "open")>>,
           dirs |-> {Worked(1, "api", 1, 1), Worked(2, "ui", 1, 0)},
           doc |-> Body, notes |-> {1}, spent |-> 0]

(* The compound form of the template, an inserted phase and a backlog. *)
Inserted == [roadmap |-> <<Phase(1, "api", "open"),
                           Section(<<1, 1>>, TRUE, "ui", "none", On(1)),
                           Phase(2, "api", "open"),
                           Section(<<999, 1>>, FALSE, "ui", "none", {})>>,
             dirs |-> {Worked(1, "api", 1, 1), [Dir(<<1, 1>>, "ui") EXCEPT !.plans = 1],
                       Dir(<<2, 0>>, "api"), Dir(<<999, 1>>, "ui")},
             doc |-> [Body EXCEPT !.compound = TRUE, !.phase = <<1, 0>>],
             notes |-> {1}, spent |-> 1]

(* All but the last phase executed, which does not depend on the first;    *)
(* old decisions to prune.                                                 *)
Ending == [roadmap |-> <<Phase(1, "api", "checked"),
                         Section(<<2, 0>>, FALSE, "ui", "open", {}),
                         Phase(3, "api", "open")>>,
           dirs |-> {Worked(1, "api", 1, 1), Worked(2, "ui", 1, 1),
                     Worked(3, "api", 1, 0)},
           doc |-> [Body EXCEPT !.phase = <<3, 0>>, !.completed = 2, !.progress = 67],
           notes |-> {1, 2}, spent |-> 1]

MCProjects == {Midway, Inserted, Ending}
=============================================================================
