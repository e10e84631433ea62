------------------------------ MODULE NetLoop ------------------------------
(***************************************************************************)
(* The network loop that feeds the web server:                             *)
(*   - httpd_uip_mainloop() (src/src/webserver/httpd-uip.c) adds the       *)
(*     elapsed time to its timers, takes one frame from the MAC if there   *)
(*     is one and hands it to uIP, and otherwise, once UIP_PERIODIC_TIMER_MS*)
(*     has passed, runs uip_periodic() on every connection (retransmission,*)
(*     and the poll events of httpd_appcall) and, every UIP_ARP_TIMER_MS,  *)
(*     the ARP timer;                                                      *)
(*   - the system tick interrupt (platform.c) sets eth_timer_fired;        *)
(*     platform_eth_get_elapsed_time() turns the flag into SYSTICKMS and   *)
(*     clears it;                                                          *)
(*   - platform_eth_get_packet_nb() asks the MACB for the length of the    *)
(*     next frame and reads it into uip_buf unless it is longer than the   *)
(*     buffer, in which case it returns 0 and leaves the frame there.      *)
(* The loop runs from the Ethernet interrupt handler, whose callers are    *)
(* outside src/; here it may run at any time.  A frame is its length and   *)
(* a tag (frames put in the ring, modulo 2), so consecutive frames are    *)
(* distinct.  The timers are in milliseconds and saturate at their period: *)
(* the code only compares them with >= and resets them to 0.               *)
(***************************************************************************)
EXTENDS Naturals, Sequences

CONSTANTS
    UIP_BUF_LEN,    \* sizeof(uip_buf): the maxlen of platform_eth_get_packet_nb
    FrameLens,      \* lengths of the frames that arrive
    RX_SLOTS        \* frames the MACB receive ring holds

SYSTICKMS == 250              \* 1000 / SYSTICKHZ
UIP_PERIODIC_TIMER_MS == 500
UIP_ARP_TIMER_MS == 10000

ASSUME /\ UIP_BUF_LEN \in Nat /\ FrameLens \subseteq Nat \ {0}
       /\ RX_SLOTS \in Nat \ {0}

Frames == FrameLens \X {0, 1}

VARIABLES
    fired,      \* eth_timer_fired
    periodic,   \* periodic_timer
    arp,        \* arp_timer
    rx,         \* frames waiting in the MACB, oldest first
    tag,        \* count of frames put in the ring, modulo 2
    done,       \* elua_resolv_req_done
    ip          \* elua_resolv_ip: 0, or 1 for the address a DNS answer gave

vars == <<fired, periodic, arp, rx, tag, done, ip>>

TypeOK ==
    /\ fired \in {0, 1}
    /\ periodic \in 0 .. UIP_PERIODIC_TIMER_MS
    /\ arp \in 0 .. UIP_ARP_TIMER_MS
    /\ rx \in Seq(Frames) /\ Len(rx) <= RX_SLOTS
    /\ tag \in {0, 1}
    /\ done \in {0, 1} /\ ip \in {0, 1}

\* The timers and the flag are static, so zero; the ring starts empty.
Init ==
    /\ fired = 0 /\ periodic = 0 /\ arp = 0
    /\ rx = <<>> /\ tag = 0
    /\ done = 0 /\ ip = 0


\* The MACB receives a frame; with the ring full it is dropped.
Arrive(len) ==
    /\ IF Len(rx) < RX_SLOTS
       THEN rx' = Append(rx, <<len, tag>>) /\ tag' = 1 - tag
       ELSE UNCHANGED <<rx, tag>>
    /\ UNCHANGED <<fired, periodic, arp, done, ip>>

\* platform_eth_get_elapsed_time(): SYSTICKMS if the flag was set.
Elapsed == IF fired = 1 THEN SYSTICKMS ELSE 0

\* platform_eth_get_packet_nb(): the next frame's length, or 0 when there
\* is none or it does not fit (then it is not read).
PacketLen == IF rx = <<>> \/ rx[1][1] > UIP_BUF_LEN THEN 0 ELSE rx[1][1]

(***************************************************************************)
(* tmr_int_handler(): eth_timer_fired = 1 (a tick while the flag is still  *)
(* set is not counted separately); then, BUILD_UIP being defined in        *)
(* mizar32_conf.h, platform_eth_force_interrupt() runs elua_uip_mainloop(),*)
(* the eLua network loop, which is not in the repository.  It may take the *)
(* tick through platform_eth_get_elapsed_time() and a frame through        *)
(* platform_eth_get_packet_nb(), which returns 0 for a frame too long for  *)
(* uip_buf as it does here.                                                *)
(***************************************************************************)
Tick ==
    \E takesTick, takesFrame \in BOOLEAN :
        /\ fired' = IF takesTick THEN 0 ELSE 1
        /\ rx' = IF takesFrame /\ PacketLen > 0 THEN Tail(rx) ELSE rx
        /\ UNCHANGED <<periodic, arp, tag, done, ip>>

\* Saturating addition for a timer compared with >= period.
AddMs(t, d, period) == IF t + d >= period THEN period ELSE t + d

(***************************************************************************)
(* What uip_input() does with a frame, as far as src/ sees it: a DNS answer*)
(* reaches resolv_found() through http_uip_udp_appcall() and uIP's         *)
(* resolver, which stores the address (0 for a failed lookup, ipaddr      *)
(* NULL) and sets elua_resolv_req_done; any other frame leaves both.  The  *)
(* uip_udp_periodic() calls of the periodic work may make the resolver    *)
(* give up a lookup, which is resolv_found() with NULL.                    *)
(* ans is "none" (not a DNS answer), "fail" or "found".                    *)
(***************************************************************************)
ResolvFound(ans) ==
    IF ans = "none" THEN UNCHANGED <<done, ip>>
    ELSE /\ ip' = IF ans = "fail" THEN 0 ELSE 1
         /\ done' = 1

(***************************************************************************)
(* httpd_uip_mainloop(): read the elapsed time, then either a frame (IP or *)
(* ARP, handed to uIP) or, with no frame, the periodic work.               *)
(***************************************************************************)
MainLoop ==
    LET p == AddMs(periodic, Elapsed, UIP_PERIODIC_TIMER_MS)
        a == AddMs(arp, Elapsed, UIP_ARP_TIMER_MS)
    IN  /\ fired' = 0
        /\ IF PacketLen > 0
           THEN /\ rx' = Tail(rx)
                /\ periodic' = p /\ arp' = a
                /\ \E ans \in {"none", "fail", "found"} : ResolvFound(ans)
           ELSE /\ UNCHANGED rx
                /\ IF p >= UIP_PERIODIC_TIMER_MS
                   THEN /\ periodic' = 0
                        /\ arp' = IF a >= UIP_ARP_TIMER_MS THEN 0 ELSE a
                        /\ \E ans \in {"none", "fail"} : ResolvFound(ans)
                   ELSE /\ periodic' = p /\ arp' = a
                        /\ UNCHANGED <<done, ip>>
        /\ UNCHANGED tag

Next ==
    \/ Tick
    \/ \E len \in FrameLens : Arrive(len)
    \/ MainLoop

(* The tick interrupt is a hardware timer and the loop keeps being        *)
(* entered; frames arrive when the network sends them.                     *)
Spec == Init /\ [][Next]_vars /\ WF_vars(Tick) /\ WF_vars(MainLoop)

-----------------------------------------------------------------------------
(* Every frame the MACB has received is eventually taken out of it: the   *)
(* frame at the head of the ring does not stay there while the loop keeps  *)
(* running.  A frame longer than uip_buf makes platform_eth_get_packet_nb  *)
(* return 0 without reading it, so every later call sees it again.         *)
RxProgress ==
    \A f \in Frames : (rx # <<>> /\ rx[1] = f) ~> (rx = <<>> \/ rx[1] # f)
=============================================================================
