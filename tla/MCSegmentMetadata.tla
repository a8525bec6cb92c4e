------------------------- MODULE MCSegmentMetadata -------------------------
(* A call of config for EC2 with Elastic Beanstalk, and one for ECS.       *)
EXTENDS SegmentMetadata, TLC

CONSTANTS g1, g2, r1, r2

TwoCalls == (1 :> {"ec2", "eb"}) @@ (2 :> {"ecs"})
=============================================================================
