-------------------------- MODULE MCBroadcastWorker --------------------------
(***************************************************************************)
(* BroadcastWorker with one form submitted twice, or two forms.            *)
(***************************************************************************)
EXTENDS BroadcastWorker, TLC

onceTwice == {(1 :> "form") @@ (2 :> "form"), (1 :> "form") @@ (2 :> "other")}
=============================================================================
