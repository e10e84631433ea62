\* A minimum-size frame and a full-size Ethernet frame (1514 bytes) against
\* a uip_buf of 1024 + 2 bytes (the buffer size is set by the uIP
\* configuration, outside src/); a two-frame receive ring.
SPECIFICATION Spec
CONSTANTS
    UIP_BUF_LEN = 1026
    FrameLens = {60, 1514}
    RX_SLOTS = 2
PROPERTY
    RxProgress
