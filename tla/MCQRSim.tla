------------------------------ MODULE MCQRSim ------------------------------
(***************************************************************************)
(* Instances of QRSim for TLC: a task with one quiet platform, one with    *)
(* two noisy ones, one shaped like the search and rescue tasks (camera, no *)
(* stream of its own) and one like the plume tasks.                        *)
(***************************************************************************)
EXTENDS QRSim

Quiet == [kind |-> "Pelican", noisy |-> {}]
Noisy == [kind |-> "Pelican", noisy |-> SetByPelican \ {"ahars"}]
WithCamera == [kind |-> "PelicanWithCamera", noisy |-> {"extra"}]
WithPlume  == [kind |-> "PelicanWithPlumeSensor", noisy |-> {"extra"}]

TaskPar(dt, n, svs, wind, area, own, draws, cfg) ==
    [dt |-> dt, n |-> n, svs |-> svs, wind |-> wind, area |-> area, own |-> own,
     draws |-> draws, cfg |-> cfg]

AllPar == [solo   |-> TaskPar(1, 1, 0, FALSE, 0, 0, FALSE, Quiet),
           duo    |-> TaskPar(2, 2, 2, TRUE, 1, 1, TRUE, Noisy),
           search |-> TaskPar(1, 1, 0, FALSE, 1, 0, TRUE, WithCamera),
           plume  |-> TaskPar(1, 1, 0, FALSE, 0, 1, TRUE, WithPlume)]

MCPar == [k \in Tasks |-> AllPar[k]]
=============================================================================
