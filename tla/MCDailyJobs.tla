----------------------------- MODULE MCDailyJobs -----------------------------
(* Small instances of DailyJobs for TLC. *)
EXTENDS DailyJobs, TLC

CONSTANTS campus, cloud

JobOrder == <<"scheduled_backup", "expire_unpaid_registrations", "purge_old_records">>

(* The cloud has no disk to keep a backup on. *)
CloudSkips == {<<cloud, "scheduled_backup">>}

=============================================================================
