---------------------------- MODULE EspTransport ----------------------------
(***************************************************************************)
(* The three serial transports of tpt-node-esp32 (transport/uart.rs and    *)
(* usb_serial_jtag.rs).  The asynchronous UART takes what the driver has,  *)
(* up to what is still wanted; the blocking UART and the USB endpoint wait *)
(* for byte after byte inside esp-hal, which is no step.  All of them end  *)
(* a write with a flush.                                                   *)
(***************************************************************************)
EXTENDS ByteLink

EspBlocking == {"esp", "usb"}

\* uart.read_bytes; nb::block!(usb.read_byte()).
EspReadByte ==
    /\ kind \in EspBlocking /\ Filling
    /\ TakeReceived(1)

\* uart.write_bytes, usb.write_bytes.
EspWriteByte ==
    /\ kind \in EspBlocking /\ Writing
    /\ Len(tx) < TxLen
    /\ Give(1)

\* uart.read_async(&mut buf[filled..]): some bytes, never more than fit.
EspReadSome ==
    /\ kind = "esp_async" /\ Filling
    /\ \E n \in 1..Shorter(Len(fifo), need - Len(buf)) : TakeReceived(n)

\* uart.write_async(&buf[written..]): as much as the sending side has room for.
EspWriteSome ==
    /\ kind = "esp_async" /\ Writing
    /\ \E n \in 1..Shorter(Len(out), TxLen - Len(tx)) : Give(n)

\* The futures of esp-hal: a read without a byte, a write without room, a flush
\* that is not over.
EspPending ==
    /\ kind = "esp_async"
    /\ \/ Len(buf) < need /\ fifo = <<>>
       \/ out # <<>> /\ Len(tx) = TxLen
       \/ need = 0 /\ out = <<>> /\ tx # <<>>
    /\ Block

EspStep == EspReadByte \/ EspWriteByte \/ EspReadSome \/ EspWriteSome \/ EspPending

=============================================================================
