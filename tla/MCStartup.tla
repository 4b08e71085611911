----------------------------- MODULE MCStartup -----------------------------
(* Small instances of Startup.                                               *)
EXTENDS Startup

CONSTANTS c1, c2     \* two calls of sign: one in its round trip, one queued

MCCallers == {c1, c2}

(* Every backend on every host.  The mlock policy follows the sandbox policy and
   only one backend writes a pidfile: neither interferes with the other choices. *)
MCSetups ==
    {s \in SetupType :
        /\ s.mlock = s.sandbox
        /\ s.pidfile = (s.backend # "tpm")
        /\ s.sandbox = "off" => s.landlock = "full"
        /\ \/ ValidBackend(s) /\ (s.backend = "none" => ~s.private_key_path /\ ~s.tpm)
           \/ s.private_key_path /\ s.tpm /\ s.backend # "none"
              /\ s.sandbox = "off" /\ s.psk_file}

(* The agent, on a host where everything else works.                         *)
MCAgentSetups ==
    {s \in MCSetups : s.backend = "file" /\ ~s.tpm /\ s.sandbox = "required"
                         /\ s.landlock = "full" /\ s.psk_file}
=============================================================================
