---------------------------- MODULE MCSshLockout -----------------------------
(* Instances of SshLockout: two addresses, both services. *)
EXTENDS SshLockout, TLC

Hosts == {"h1", "h2"}
Services == {"sshd", "webConfigurator"}

=============================================================================
