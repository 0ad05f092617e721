----------------------------- MODULE MCSeeder ------------------------------
(* Instances of Seeder for TLC: two metatiles, one of them below the other *)
(* or beside it, and a third one that starts like the second one.          *)
EXTENDS Seeder, TLC

CONSTANTS a, b, c

MCBelowRoots == <<a>>
MCBelow == (a :> <<b, c>>) @@ (b :> <<>>) @@ (c :> <<>>)
MCBesideRoots == <<a, b>>
MCBeside == (a :> <<>>) @@ (b :> <<>>)

MCFound == {f \in [Metas -> {Empty, Whole("old"), Whole("new")}] :
              \A m \in Metas \ {a, b} : f[m] = f[b]}

Alone(threads, processes, mode, age) ==
  [threads |-> threads, processes |-> processes, mode |-> mode, force |-> FALSE,
   ageLimit |-> age, server |-> "no"]
Served(o) == [o EXCEPT !.server = "yes"]
Disturbed(o) == [o EXCEPT !.server = "failing"]
Forced(o) == [o EXCEPT !.force = TRUE]

MCSafe == {Alone(3, 0, "seed", FALSE), Served(Alone(1, 0, "seed", TRUE)),
           Alone(0, 2, "seed", TRUE), Disturbed(Alone(2, 0, "seed", FALSE)),
           Forced(Alone(2, 0, "seed", FALSE)), Alone(2, 0, "delete", FALSE),
           Alone(2, 0, "transfer", FALSE), Alone(0, 2, "transfer", TRUE)}
MCLive == {Served(Alone(2, 0, "seed", FALSE)), Alone(1, 0, "transfer", FALSE),
           Alone(2, 0, "delete", TRUE)}
MCTwoProcesses == {Alone(0, 2, "seed", FALSE)}
=============================================================================
