------------------------------ MODULE ExitStatus ------------------------------
(***************************************************************************)
(* A child of httpd tells the daemon how much it has put into the cache    *)
(* with its exit status, one byte (HTCache.c).                             *)
(***************************************************************************)
EXTENDS Integers

HTExitStatusToKilos(status) ==
    CASE status < 100                   -> status
      [] status >= 100 /\ status < 200  -> (status - 100) * 10 + 100
      [] status >= 200 /\ status < 250  -> (status - 200) * 100 + 1000
      [] status >= 250 /\ status < 255  -> (status - 250) * 1000 + 5000
      [] status >= 255                  -> 10000

KilosToExitStatus(kilos) ==
    CASE kilos < 100                    -> kilos + 1
      [] kilos >= 100 /\ kilos < 1000   -> 100 + (kilos - 100) \div 10
      [] kilos >= 1000 /\ kilos < 5000  -> 200 + (kilos - 1000) \div 100
      [] kilos >= 5000 /\ kilos < 10000 -> 250 + (kilos - 5000) \div 1000
      [] kilos >= 10000                 -> 255

HTBytesToExitStatus(bytes) == KilosToExitStatus(bytes \div 1024)
==============================================================================
