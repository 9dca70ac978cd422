------------------------------- MODULE MCFleet -------------------------------
(* Two parts of the fleet that do not interact, each in behaviours of its  *)
(* own: the GPU workloads of two nodes, and the allocator.                 *)
EXTENDS GpuCoordination, Allocator, TLC

VARIABLE part

FleetInit ==
  part \in {"gpu", "allocator"} /\ Init /\ AllocatorInit

FleetNext ==
  /\ \/ part = "gpu" /\ Next /\ UNCHANGED allocatorVars
     \/ part = "allocator" /\ AllocatorNext /\ UNCHANGED vars
  /\ UNCHANGED part

FleetSpec == FleetInit /\ [][FleetNext]_<<vars, allocatorVars, part>> /\ Fairness

-----------------------------------------------------------------------------

TwoTagged == [small |-> {"a", "b"}, big |-> {"a", "b"}, tagged |-> {"a"}]
Homes == [small |-> "a", big |-> "a", tagged |-> "b"]
OneOrTwo == [small |-> 1, big |-> 2, tagged |-> 1]

Node(id, unified, ram, vram, backends, blackwell, speed, far) ==
  [node_id |-> id, unified |-> unified, ram |-> ram, vram |-> vram, disk |-> 10,
   backends |-> backends, blackwell |-> blackwell, speed |-> speed, far |-> far]
FiveNodes ==
  {Node("spark", TRUE, 20, NoVram, {"vllm", "llamacpp"}, TRUE, 2, FALSE),
   Node("mac", TRUE, 16, NoVram, {"mlx", "llamacpp"}, FALSE, 3, TRUE),
   Node("gaming", FALSE, 32, 6, {"llamacpp"}, FALSE, 3, FALSE),
   Node("laptop", FALSE, 8, NoVram, {"llamacpp", "mlx"}, FALSE, 1, TRUE),
   Node("laptop", FALSE, 4, NoVram, {"llamacpp"}, FALSE, 1, FALSE)}

Card(id, domain, runtime, min_vram, backend, fp4, storage, weight) ==
  [specialist_id |-> id, domain |-> domain, runtime |-> runtime, min_vram |-> min_vram,
   backend |-> backend, fp4 |-> fp4, storage |-> storage, weight |-> weight]
FourCards ==
  {Card("chat", "general", 3, 3, "llamacpp", FALSE, 3, 1),
   Card("coder", "code", 6, 7, "vllm", TRUE, 6, 1),
   Card("tools", "tool_use", 5, 5, "llamacpp", FALSE, 5, 2),
   Card("eyes", "vision", 2, 2, "mlx", FALSE, 2, 0)}
TwoMixes == {<<>>, "vision" :> 5 @@ "code" :> 60}
=============================================================================
