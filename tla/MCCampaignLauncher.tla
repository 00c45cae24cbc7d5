-------------------------- MODULE MCCampaignLauncher --------------------------
(* Instances of CampaignLauncher for TLC.                                  *)
EXTENDS CampaignLauncher
=============================================================================
