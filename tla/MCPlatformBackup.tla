-------------------------- MODULE MCPlatformBackup --------------------------
(* Instances of PlatformBackup for TLC.                                     *)
EXTENDS PlatformBackup, TLC

AllServices == {"glpi", "netbox", "zabbix", "observability"}
=============================================================================
